---- MODULE Spec2Model ----
(***************************************************************************)
(* Verification model of the Loop Architect slicing / analysis / MIDI      *)
(* engine (src/app.py and its backend twins).                              *)
(*                                                                         *)
(* Conventions                                                             *)
(*   - a byte string is a sequence of integers 0..255;                     *)
(*   - a time is a whole number of milliseconds, a tempo a whole number of *)
(*     tenths of a BPM (the BPM box steps by 0.1), a level a whole number  *)
(*     of tenths of a dB, so that the float expressions of the source are  *)
(*     evaluated exactly as rationals;                                     *)
(*   - a Camelot code or a key label is a sequence of characters, so that  *)
(*     slicing, int() and f-string formatting are modelled by what they do.*)
(* Each group of variables belongs to one specification; the other groups  *)
(* stay at their idle value in that specification.                         *)
(***************************************************************************)
EXTENDS Integers, Sequences, FiniteSets, TLC

VARIABLES
    \* encode_delta_time
    ticks, vlq_out, vlq_pc,
    \* write_midi_file
    notes_list, bpm10, midi_pc, midi_file, midi_log,
    \* detect_key, get_harmonic_recommendations
    chroma_sums, impl, key_str, recs, key_pc,
    \* slice_stem_real: its arguments, what the analysis libraries report for
    \* the buffer, its result, the files on disk and the number of temporary
    \* directories made
    stem_audio, stem_name, loop_choice, manual_bpm10, time_signature,
    main_pitch_line, onset_frames, transpose_semitones, detected_key,
    filter_type, filter_depth, pan_depth, level_depth, target_dbfs10,
    crossfade_ms, output_files, slice_pc, disk, temp_dirs,
    \* slice_all_and_zip
    stems_in, zip_pc, zip_i, all_sliced_files, progress_log, archive,
    zip_closed, deleted, failed_stems,
    \* the fade of a one-shot: the fragment as the envelope left it, the
    \* sample rate, the fragment after apply_crossfade
    slice_data, fade_sr, faded, fade_pc,
    \* apply_filter_modulation: the buffer (one sequence of samples for each
    \* channel), the sample rate, the filter settings, the LFO averaged over
    \* each frame (in halves), the result, the coefficients each frame was
    \* filtered with
    fm_y, fm_sr, fm_type, fm_freq, fm_depth, lfo_value, y_out, coef_log, fm_pc,
    \* WorkflowOrchestrator: its fields, the statuses handed to the status
    \* callback, the calls of process() with their outcome, the position of
    \* the loop of execute and its result
    modules, config, status_callback, current_step_index, steps_completed,
    steps_failed, status_log, process_log, wf_i, wf_result, wf_pc

vlqVars   == <<ticks, vlq_out, vlq_pc>>
midiVars  == <<notes_list, bpm10, midi_pc, midi_file, midi_log>>
keyVars   == <<chroma_sums, impl, key_str, recs, key_pc>>
sliceArgs == <<stem_audio, stem_name, loop_choice, manual_bpm10, time_signature,
               main_pitch_line, onset_frames, transpose_semitones, detected_key,
               filter_type, filter_depth, pan_depth, level_depth, target_dbfs10,
               crossfade_ms>>
sliceVars == <<sliceArgs, output_files, slice_pc, disk, temp_dirs>>
zipVars   == <<stems_in, zip_pc, zip_i, all_sliced_files, progress_log, archive,
               zip_closed, deleted, failed_stems>>
fadeVars  == <<slice_data, fade_sr, faded, fade_pc>>
fmArgs    == <<fm_y, fm_sr, fm_type, fm_freq, fm_depth, lfo_value>>
fmVars    == <<fmArgs, y_out, coef_log, fm_pc>>
wfSetup   == <<modules, config, status_callback>>
wfVars    == <<wfSetup, current_step_index, steps_completed, steps_failed,
               status_log, process_log, wf_i, wf_result, wf_pc>>
vars      == <<vlqVars, midiVars, keyVars, sliceVars, zipVars, fadeVars, fmVars,
               wfVars>>

\* what an action of one group leaves alone
otherThanVlq   == <<midiVars, keyVars, sliceVars, zipVars, fadeVars,
                   fmVars, wfVars>>
otherThanMidi  == <<vlqVars, keyVars, sliceVars, zipVars, fadeVars,
                   fmVars, wfVars>>
otherThanKey   == <<vlqVars, midiVars, sliceVars, zipVars, fadeVars,
                   fmVars, wfVars>>
otherThanSlice == <<vlqVars, midiVars, keyVars, zipVars, fadeVars,
                   fmVars, wfVars>>
otherThanZip   == <<vlqVars, midiVars, keyVars, sliceArgs, output_files, slice_pc, fadeVars,
                   fmVars, wfVars>>
otherThanFade  == <<vlqVars, midiVars, keyVars, sliceVars, zipVars, fmVars,
                   wfVars>>
otherThanWf    == <<vlqVars, midiVars, keyVars, sliceVars, zipVars, fadeVars, fmVars>>
otherThanFm    == <<vlqVars, midiVars, keyVars, sliceVars, zipVars, fadeVars,
                   wfVars>>

----------------------------------------------------------------------------
(* Bounds of the model *)

MaxTick  == 300        \* encode_delta_time is applied to 0..MaxTick and to BigTicks
MinTick  == 3          \* ... and to -MinTick..-1 (a negative delta of overlapping notes)
MaxNotes == 2          \* longest note list handed to write_midi_file
MaxChord == 3          \* pitch classes that stand out of a chroma histogram
MaxWeight == 2         \* by how much they stand out
MaxBase  == 1          \* the level of the other pitch classes
MaxFrames == 3         \* frames of a pitch track
MaxOnsets == 3         \* onsets of a short one-shot buffer
MaxValidStems == 2     \* stems that are not None in one slice_all_and_zip run
MaxClip  == 6          \* samples of a fragment handed to apply_crossfade
MaxLead  == 7          \* unpitched frames before the first note of a melody
MaxRun   == 7          \* frames of its first note
MaxModules == 3        \* modules registered with one orchestrator
MaxLine  == 5          \* frames of a pitch track handed to the transcription
MaxScale == 2          \* how many times a reference profile a histogram is
MaxFilterLen == 3      \* samples of a buffer handed to apply_filter_modulation
FrameSize == 2         \* samples of one filter frame (512 in the source)

BigTicks == {16383, 16384, 16385, 2097151, 2097152, 268435455}

----------------------------------------------------------------------------
(* Generic helpers *)

RECURSIVE Concat(_)
Concat(ss) == IF ss = <<>> THEN <<>> ELSE Head(ss) \o Concat(Tail(ss))

Last(s) == s[Len(s)]

Min2(a, b) == IF a < b THEN a ELSE b
Max2(a, b) == IF a > b THEN a ELSE b

\* int.to_bytes(width, 'big') for a value that fits
RECURSIVE ToBytesBig(_, _)
ToBytesBig(n, width) ==
    IF width = 0 THEN <<>>
    ELSE Append(ToBytesBig(n \div 256, width - 1), n % 256)

\* 256^width fits a machine integer for width <= 3; a 4-byte field always
\* holds the lengths of this model
FitsBytes(n, width) ==
    /\ n >= 0
    /\ (width = 1 => n < 256)
    /\ (width = 2 => n < 65536)
    /\ (width = 3 => n < 16777216)

RECURSIVE FromBytesBig(_)
FromBytesBig(b) ==
    IF b = <<>> THEN 0 ELSE FromBytesBig(SubSeq(b, 1, Len(b) - 1)) * 256 + Last(b)

\* Python 3 round() of the rational num/den (den > 0): ties go to the even integer
RoundHalfEven(num, den) ==
    LET q == num \div den
        r == num % den
    IN  IF 2 * r < den THEN q
        ELSE IF 2 * r > den THEN q + 1
        ELSE IF q % 2 = 0 THEN q ELSE q + 1

----------------------------------------------------------------------------
(* encode_delta_time, src/app.py:124-144 *)

\* the integer `buffer` is held as its big-endian bytes: (buffer << 8) | b
\* appends the byte b
RECURSIVE VlqShiftLoop(_, _)
VlqShiftLoop(buffer, t) ==
    IF t > 0
    THEN VlqShiftLoop(Append(buffer, (t % 128) + 128), t \div 128)
    ELSE buffer

\* buffer & 0xFFFFFF7F: keeps the low 32 bits and clears bit 7 of the low byte
MaskFFFFFF7F(buffer) ==
    LET low4 == IF Len(buffer) > 4
                THEN SubSeq(buffer, Len(buffer) - 3, Len(buffer))
                ELSE buffer
        lo   == Last(low4)
    IN  [low4 EXCEPT ![Len(low4)] = IF lo >= 128 THEN lo - 128 ELSE lo]

\* while buffer > 0: byte_list.insert(0, buffer & 0xFF): leading zero bytes vanish
RECURSIVE StripLeadingZeros(_)
StripLeadingZeros(b) ==
    IF b # <<>> /\ Head(b) = 0 THEN StripLeadingZeros(Tail(b)) ELSE b

EncodeDeltaTime(t) ==
    LET buffer == t % 128          \* ticks & 0x7F
        rest   == t \div 128       \* ticks >>= 7 (arithmetic shift)
    IN  IF rest > 0
        THEN LET shifted   == VlqShiftLoop(<<buffer + 128>>, rest)
                 byte_list == StripLeadingZeros(MaskFFFFFF7F(shifted))
             IN  IF byte_list = <<>> THEN <<0>> ELSE byte_list
        ELSE <<buffer>>

\* The variable-length quantity of the Standard MIDI File format
RECURSIVE StdVlqHigh(_)
StdVlqHigh(n) ==
    IF n = 0 THEN <<>> ELSE Append(StdVlqHigh(n \div 128), (n % 128) + 128)

StdVlq(n) == Append(StdVlqHigh(n \div 128), n % 128)

RECURSIVE VlqDecode(_)
VlqDecode(b) ==
    IF b = <<>> THEN 0
    ELSE VlqDecode(SubSeq(b, 1, Len(b) - 1)) * 128 + (Last(b) % 128)

VlqIdle == ticks = 0 /\ vlq_out = <<>> /\ vlq_pc = "off"

VlqInit ==
    /\ ticks \in (-MinTick .. MaxTick) \cup BigTicks
    /\ vlq_out = <<>>
    /\ vlq_pc = "call"

VlqEncode ==
    /\ vlq_pc = "call"
    /\ vlq_out' = EncodeDeltaTime(ticks)
    /\ vlq_pc' = "returned"
    /\ UNCHANGED <<ticks, otherThanVlq>>

----------------------------------------------------------------------------
(* write_midi_file, src/app.py:58-122 *)

division == 96         \* ticks per quarter note

\* inputs of the model: a note is [note, start, dur], times in milliseconds
Pitches   == {0, 60}
StartsMs  == {0, 500, 1000}
DursMs    == {5, 25, 500}
Bpm10s    == {30, 625, 1200}      \* 3.0, 62.5 and 120.0 BPM
NoteSet   == [note : Pitches, start : StartsMs, dur : DursMs]
NoteLists == UNION {[1..n -> NoteSet] : n \in 0..MaxNotes}

\* x_sec / seconds_per_tick with seconds_per_tick = 60.0 / (bpm * division):
\* (ms/1000) * (bpm10/10) * division / 60 = ms * bpm10 * division / 600000
SecToTicks(ms, b10) == RoundHalfEven(ms * b10 * division, 600000)

\* notes_list.sort(key=lambda x: x[1]): a stable sort on the start time
RECURSIVE InsertByStart(_, _)
InsertByStart(sorted, n) ==
    IF sorted = <<>> THEN <<n>>
    ELSE IF Last(sorted).start <= n.start THEN Append(sorted, n)
    ELSE Append(InsertByStart(SubSeq(sorted, 1, Len(sorted) - 1), n), Last(sorted))

RECURSIVE SortByStart(_)
SortByStart(s) ==
    IF s = <<>> THEN <<>>
    ELSE InsertByStart(SortByStart(SubSeq(s, 1, Len(s) - 1)), Last(s))

\* b'\x00\xFF\x51\x03' + tempo_bytes
TempoEvent(tempo_us_per_beat) == <<0, 255, 81, 3>> \o ToBytesBig(tempo_us_per_beat, 3)

\* b'\x00\xFF\x58\x04\x04\x02\x18\x08'
TimeSignatureEvent == <<0, 255, 88, 4, 4, 2, 24, 8>>

\* "LoopArchitect"
TrackNameText == <<76, 111, 111, 112, 65, 114, 99, 104, 105, 116, 101, 99, 116>>

\* b'\x00\xFF\x03\x0BLoopArchitect'
TrackNameEvent == <<0, 255, 3, 11>> \o TrackNameText

\* b'\x00\xFF\x2F\x00'
EndOfTrackEvent == <<0, 255, 47, 0>>

\* duration_ticks, with the promotion of 0 to 1
DurationTicks(n, b10) ==
    LET duration_ticks == SecToTicks(n.dur, b10)
    IN  IF duration_ticks = 0 THEN 1 ELSE duration_ticks

\* a writer that forgets `current_tick += duration_ticks`
TickAfterNoteNoOff(target_tick, duration_ticks) == target_tick

\* current_tick after the Note-Off of a note
TickAfterNote(target_tick, duration_ticks) == target_tick + duration_ticks

\* a writer that moves the running tick to the start of a note it skips
TickAfterSkipMoved(current_tick, n, b10) == SecToTicks(n.start, b10)

\* if note == 0: continue -- current_tick is left as it is
TickAfterSkip(current_tick, n, b10) == current_tick

\* the loop over the sorted notes: the bytes appended to track_data and, for
\* every note written, the two values handed to encode_delta_time
RECURSIVE NoteLoop(_, _, _, _, _)
NoteLoop(notes, b10, current_tick, data, log) ==
    IF notes = <<>> THEN [data |-> data, log |-> log]
    ELSE LET n == Head(notes) IN
         IF n.note = 0
         THEN NoteLoop(Tail(notes), b10, TickAfterSkip(current_tick, n, b10), data, log)
         ELSE LET target_tick    == SecToTicks(n.start, b10)
                  delta_tick     == target_tick - current_tick
                  duration_ticks == DurationTicks(n, b10)
                  note_on        == <<144, n.note, 100>>
                  note_off       == <<128, n.note, 0>>
              IN  NoteLoop(Tail(notes), b10,
                           TickAfterNote(target_tick, duration_ticks),
                           data \o EncodeDeltaTime(delta_tick) \o note_on
                                \o EncodeDeltaTime(duration_ticks) \o note_off,
                           Append(log, [note |-> n, on |-> delta_tick,
                                        off |-> duration_ticks]))

\* int(60000000 / bpm)
TempoUsPerBeat(b10) == 600000000 \div b10

MThd == <<77, 84, 104, 100>>
MTrk == <<77, 84, 114, 107>>

MidiHeader == MThd \o ToBytesBig(6, 4) \o ToBytesBig(1, 2) \o ToBytesBig(1, 2)
                   \o ToBytesBig(division, 2)

TrackData(sorted, b10) ==
    TempoEvent(TempoUsPerBeat(b10)) \o TimeSignatureEvent \o TrackNameEvent
        \o NoteLoop(sorted, b10, 0, <<>>, <<>>).data \o EndOfTrackEvent

MidiData(sorted, b10) ==
    LET track_data == TrackData(sorted, b10)
    IN  MidiHeader \o MTrk \o ToBytesBig(Len(track_data), 4) \o track_data

MidiIdle ==
    /\ notes_list = <<>> /\ bpm10 = 0 /\ midi_pc = "off"
    /\ midi_file = <<>> /\ midi_log = <<>>

MidiInit ==
    /\ notes_list \in NoteLists
    /\ bpm10 \in Bpm10s
    /\ midi_pc = "call"
    /\ midi_file = <<>>
    /\ midi_log = <<>>

\* if not notes_list: return
WriteMidiEmpty ==
    /\ midi_pc = "call"
    /\ notes_list = <<>>
    /\ midi_pc' = "returned"
    /\ UNCHANGED <<notes_list, bpm10, midi_file, midi_log, otherThanMidi>>

\* tempo_us_per_beat.to_bytes(3, 'big') raises OverflowError: the caller's list
\* has been sorted in place (line 72), nothing has been written
WriteMidiOverflow ==
    /\ midi_pc = "call"
    /\ notes_list # <<>>
    /\ ~FitsBytes(TempoUsPerBeat(bpm10), 3)
    /\ notes_list' = SortByStart(notes_list)
    /\ midi_pc' = "raised"
    /\ UNCHANGED <<bpm10, midi_file, midi_log, otherThanMidi>>

WriteMidiFile ==
    /\ midi_pc = "call"
    /\ notes_list # <<>>
    /\ FitsBytes(TempoUsPerBeat(bpm10), 3)
    /\ LET sorted == SortByStart(notes_list)
       IN  /\ notes_list' = sorted
           /\ midi_file' = MidiData(sorted, bpm10)
           /\ midi_log' = NoteLoop(sorted, bpm10, 0, <<>>, <<>>).log
    /\ midi_pc' = "written"
    /\ UNCHANGED <<bpm10, otherThanMidi>>

----------------------------------------------------------------------------
(* Key labels and Camelot codes, src/app.py:24-43 and                       *)
(* src/huggingface/modules/audio_analyzer.py:14-23.  A label or a code is   *)
(* a sequence of characters.                                                *)

Maj == <<"M", "a", "j">>
Min == <<"M", "i", "n">>
Sharp(letter) == <<letter, "#">>
Flat(letter)  == <<letter, "b">>
Label(root, mode) == root \o <<" ">> \o mode
Code(digits, letter) == Append(digits, letter)
Slash(a, b) == a \o <<" ", "/", " ">> \o b

\* a dict literal is the sequence of its (key, value) pairs in source order
KEY_TO_CAMELOT == <<
    <<Label(<<"C">>, Maj), Code(<<"8">>, "B")>>,       <<Label(<<"G">>, Maj), Code(<<"9">>, "B")>>,
    <<Label(<<"D">>, Maj), Code(<<"1", "0">>, "B")>>,  <<Label(<<"A">>, Maj), Code(<<"1", "1">>, "B")>>,
    <<Label(<<"E">>, Maj), Code(<<"1", "2">>, "B")>>,  <<Label(<<"B">>, Maj), Code(<<"1">>, "B")>>,
    <<Label(Sharp("F"), Maj), Code(<<"2">>, "B")>>,    <<Label(Flat("D"), Maj), Code(<<"3">>, "B")>>,
    <<Label(Flat("A"), Maj), Code(<<"4">>, "B")>>,     <<Label(Flat("E"), Maj), Code(<<"5">>, "B")>>,
    <<Label(Flat("B"), Maj), Code(<<"6">>, "B")>>,     <<Label(<<"F">>, Maj), Code(<<"7">>, "B")>>,
    <<Label(<<"A">>, Min), Code(<<"8">>, "A")>>,       <<Label(<<"E">>, Min), Code(<<"9">>, "A")>>,
    <<Label(<<"B">>, Min), Code(<<"1", "0">>, "A")>>,  <<Label(Sharp("F"), Min), Code(<<"1", "1">>, "A")>>,
    <<Label(Sharp("C"), Min), Code(<<"1", "2">>, "A")>>, <<Label(Sharp("G"), Min), Code(<<"1">>, "A")>>,
    <<Label(Sharp("D"), Min), Code(<<"2">>, "A")>>,    <<Label(Flat("B"), Min), Code(<<"3">>, "A")>>,
    <<Label(<<"F">>, Min), Code(<<"4">>, "A")>>,       <<Label(<<"C">>, Min), Code(<<"5">>, "A")>>,
    <<Label(<<"G">>, Min), Code(<<"6">>, "A")>>,       <<Label(<<"D">>, Min), Code(<<"7">>, "A")>>,
    \* Enharmonic equivalents
    <<Label(Flat("G"), Maj), Code(<<"2">>, "B")>>,     <<Label(Flat("C"), Maj), Code(<<"7">>, "B")>>,
    <<Label(Sharp("A"), Min), Code(<<"3">>, "A")>>,    <<Label(Sharp("D"), Maj), Code(<<"5">>, "B")>>,
    <<Label(Sharp("G"), Maj), Code(<<"4">>, "B")>> >>

CAMELOT_TO_KEY == <<
    <<Code(<<"8">>, "B"), Label(<<"C">>, Maj)>>,       <<Code(<<"9">>, "B"), Label(<<"G">>, Maj)>>,
    <<Code(<<"1", "0">>, "B"), Label(<<"D">>, Maj)>>,  <<Code(<<"1", "1">>, "B"), Label(<<"A">>, Maj)>>,
    <<Code(<<"1", "2">>, "B"), Label(<<"E">>, Maj)>>,  <<Code(<<"1">>, "B"), Label(<<"B">>, Maj)>>,
    <<Code(<<"2">>, "B"), Slash(Label(Sharp("F"), Maj), Label(Flat("G"), Maj))>>,
    <<Code(<<"3">>, "B"), Label(Flat("D"), Maj)>>,
    <<Code(<<"4">>, "B"), Slash(Label(Flat("A"), Maj), Label(Sharp("G"), Maj))>>,
    <<Code(<<"5">>, "B"), Slash(Label(Flat("E"), Maj), Label(Sharp("D"), Maj))>>,
    <<Code(<<"6">>, "B"), Label(Flat("B"), Maj)>>,
    <<Code(<<"7">>, "B"), Slash(Label(<<"F">>, Maj), Label(Flat("C"), Maj))>>,
    <<Code(<<"8">>, "A"), Label(<<"A">>, Min)>>,       <<Code(<<"9">>, "A"), Label(<<"E">>, Min)>>,
    <<Code(<<"1", "0">>, "A"), Label(<<"B">>, Min)>>,  <<Code(<<"1", "1">>, "A"), Label(Sharp("F"), Min)>>,
    <<Code(<<"1", "2">>, "A"), Label(Sharp("C"), Min)>>, <<Code(<<"1">>, "A"), Label(Sharp("G"), Min)>>,
    <<Code(<<"2">>, "A"), Label(Sharp("D"), Min)>>,
    <<Code(<<"3">>, "A"), Slash(Label(Flat("B"), Min), Label(Sharp("A"), Min))>>,
    <<Code(<<"4">>, "A"), Label(<<"F">>, Min)>>,       <<Code(<<"5">>, "A"), Label(<<"C">>, Min)>>,
    <<Code(<<"6">>, "A"), Label(<<"G">>, Min)>>,       <<Code(<<"7">>, "A"), Label(<<"D">>, Min)>> >>

\* the analyzer module's table: the first 24 entries, without the enharmonic ones
AnalyzerKeyToCamelot == SubSeq(KEY_TO_CAMELOT, 1, 24)

\* {v: k for k, v in d.items()}
InvertDict(d) == [i \in 1..Len(d) |-> <<d[i][2], d[i][1]>>]

AnalyzerCamelotToKey == InvertDict(AnalyzerKeyToCamelot)

\* d.get(k, default): of several pairs with the same key the last one stands
DictHas(d, k) == \E i \in 1..Len(d) : d[i][1] = k
DictGet(d, k, default) ==
    IF DictHas(d, k)
    THEN d[CHOOSE i \in 1..Len(d) :
               d[i][1] = k /\ \A j \in (i + 1)..Len(d) : d[j][1] # k][2]
    ELSE default

Impls == {"app", "analyzer"}
KeyToCamelotOf(m) == IF m = "app" THEN KEY_TO_CAMELOT ELSE AnalyzerKeyToCamelot
CamelotToKeyOf(m) == IF m = "app" THEN CAMELOT_TO_KEY ELSE AnalyzerCamelotToKey

NA == <<"N", "/", "A">>
UnknownKey == <<"U", "n", "k", "n", "o", "w", "n", " ", "K", "e", "y">>

----------------------------------------------------------------------------
(* get_harmonic_recommendations, src/app.py:146-169 *)

Digits == <<"0", "1", "2", "3", "4", "5", "6", "7", "8", "9">>
IsDigit(c) == \E d \in 1..10 : Digits[d] = c
DigitValue(c) == (CHOOSE d \in 1..10 : Digits[d] = c) - 1

\* int(text): -1 stands for the ValueError of a text that is no number
RECURSIVE ParseInt(_)
ParseInt(text) ==
    IF text = <<>> \/ \E i \in 1..Len(text) : ~IsDigit(text[i]) THEN -1
    ELSE IF Len(text) = 1 THEN DigitValue(text[1])
    ELSE ParseInt(SubSeq(text, 1, Len(text) - 1)) * 10 + DigitValue(Last(text))

\* f"{num}" for num >= 0
RECURSIVE FormatInt(_)
FormatInt(n) ==
    IF n < 10 THEN <<Digits[n + 1]>>
    ELSE Append(FormatInt(n \div 10), Digits[(n % 10) + 1])

RECURSIVE Join(_, _)
Join(parts, sep) ==
    IF parts = <<>> THEN <<>>
    ELSE IF Len(parts) = 1 THEN parts[1]
    ELSE parts[1] \o sep \o Join(Tail(parts), sep)

\* a wheel that does not wrap from 12 to 1
NumPlusOneNoWrap(num) == num + 1

NumPlusOne(num)  == (num % 12) + 1
NumMinusOne(num) == IF num = 1 THEN 12 ELSE num - 1
OppositeMode(mode) == IF mode = "A" THEN "B" ELSE "A"

\* f"{CAMELOT_TO_KEY.get(r_code, f'Code {r_code}')} ({r_code})"
RecKey(m, r_code) ==
    DictGet(CamelotToKeyOf(m), r_code, <<"C", "o", "d", "e", " ">> \o r_code)
        \o <<" ", "(">> \o r_code \o <<")">>

\* the result: which return statement was taken, the three codes, the three
\* entries and the returned text
HarmonicRecommendations(m, key) ==
    LET code == DictGet(KeyToCamelotOf(m), key, NA) IN
    IF code = NA
    THEN [ret |-> "not recognized", codes |-> <<>>, keys |-> <<>>, text |-> NA]
    ELSE LET num  == ParseInt(SubSeq(code, 1, Len(code) - 1))
             mode == Last(code)
         IN  IF num < 0
             THEN [ret |-> "error", codes |-> <<>>, keys |-> <<>>, text |-> NA]
             ELSE LET recs_codes == << Append(FormatInt(num), OppositeMode(mode)),
                                       Append(FormatInt(NumPlusOne(num)), mode),
                                       Append(FormatInt(NumMinusOne(num)), mode) >>
                      rec_keys   == [i \in 1..3 |-> RecKey(m, recs_codes[i])]
                  IN  [ret |-> "ok", codes |-> recs_codes, keys |-> rec_keys,
                       text |-> Join(rec_keys, <<" ", "|", " ">>)]

----------------------------------------------------------------------------
(* detect_key, src/app.py:171-205 *)

PitchClass == 0..11

\* the Krumhansl-Schmuckler templates, in hundredths
major_template == <<635, 223, 348, 233, 438, 409, 252, 519, 239, 366, 229, 288>>
minor_template == <<633, 268, 352, 538, 260, 353, 254, 475, 398, 269, 334, 317>>

pitch_classes == << <<"C">>, Sharp("C"), <<"D">>, Sharp("D"), <<"E">>, <<"F">>,
                    Sharp("F"), <<"G">>, Sharp("G"), <<"A">>, Sharp("A"), <<"B">> >>

RECURSIVE SumSeq(_)
SumSeq(q) == IF q = <<>> THEN 0 ELSE Head(q) + SumSeq(Tail(q))

\* np.roll(template, i)[k] = template[(k - i) mod 12], indices from 0
Roll(template, i) == [k \in 1..12 |-> template[((k - 1 - i) % 12) + 1]]

\* np.dot(chroma, np.roll(template, i)), chroma indexed by pitch class
Dot(chroma, rolled) == SumSeq([k \in 1..12 |-> chroma[k - 1] * rolled[k]])

\* the template turned the other way round
CorrelationsBackward(chroma, template) ==
    [i \in 1..12 |-> Dot(chroma, Roll(template, 1 - i))]

Correlations(chroma, template) == [i \in 1..12 |-> Dot(chroma, Roll(template, i - 1))]

\* np.argmax: the first index (from 0) of the largest entry
ArgMax(q) ==
    (CHOOSE i \in 1..Len(q) :
        /\ \A j \in 1..Len(q) : q[j] <= q[i]
        /\ \A j \in 1..(i - 1) : q[j] < q[i]) - 1

\* the comparison of line 199 on the normalised correlations: the common
\* positive factor 1/sum(chroma) cancels, the templates are divided by their sums
\* (the products are kept as <<thousands, units>>, being wider than 31 bits
\* for a histogram as large as a template)
Wide(n, factor) ==
    LET low == (n % 1000) * factor
    IN  <<(n \div 1000) * factor + low \div 1000, low % 1000>>

WideGreater(p, q) == p[1] > q[1] \/ (p[1] = q[1] /\ p[2] > q[2])

\* a comparison that gives a tie to major
MajorWinsOnTie(major_dot, minor_dot) ==
    ~WideGreater(Wide(minor_dot, SumSeq(major_template)),
                 Wide(major_dot, SumSeq(minor_template)))

MajorWins(major_dot, minor_dot) ==
    WideGreater(Wide(major_dot, SumSeq(minor_template)),
                Wide(minor_dot, SumSeq(major_template)))

ChromaTotal(chroma) == SumSeq([k \in 1..12 |-> chroma[k - 1]])

DetectKeyOf(chroma) ==
    IF ChromaTotal(chroma) = 0 THEN UnknownKey
    ELSE LET major_correlations == Correlations(chroma, major_template)
             minor_correlations == Correlations(chroma, minor_template)
             best_major_index   == ArgMax(major_correlations)
             best_minor_index   == ArgMax(minor_correlations)
         IN  IF MajorWins(major_correlations[best_major_index + 1],
                          minor_correlations[best_minor_index + 1])
             THEN pitch_classes[best_major_index + 1] \o <<" ">> \o Maj
             ELSE pitch_classes[best_minor_index + 1] \o <<" ">> \o Min

\* inputs: a histogram with a flat floor and up to MaxChord raised pitch classes
ChromaInputs ==
    { [k \in PitchClass |-> base + (IF k \in S THEN w ELSE 0)] :
        base \in 0..MaxBase, w \in 1..MaxWeight,
        S \in {T \in SUBSET PitchClass : Cardinality(T) <= MaxChord} }

\* ... and a histogram that is a whole multiple of a reference profile
\* turned by r pitch classes
ProfileOf(template, r, scale) ==
    [k \in PitchClass |-> scale * Roll(template, r)[k + 1]]

ProfileInputs ==
    { ProfileOf(template, r, scale) :
        template \in {major_template, minor_template},
        r \in PitchClass, scale \in 1..MaxScale }

Silence == [k \in PitchClass |-> 0]

NoRecs == [ret |-> "none", codes |-> <<>>, keys |-> <<>>, text |-> <<>>]

KeyIdle ==
    /\ chroma_sums = Silence /\ impl = "app" /\ key_str = <<>>
    /\ recs = NoRecs /\ key_pc = "off"

KeyInit ==
    /\ chroma_sums \in ChromaInputs
    /\ impl \in Impls
    /\ key_str = <<>>
    /\ recs = NoRecs
    /\ key_pc = "detect"

ProfileInit ==
    /\ chroma_sums \in ProfileInputs
    /\ impl \in Impls
    /\ key_str = <<>>
    /\ recs = NoRecs
    /\ key_pc = "detect"

\* the function is handed a key label directly
CamelotInit ==
    /\ chroma_sums = Silence
    /\ impl \in Impls
    /\ key_str \in {KEY_TO_CAMELOT[i][1] : i \in 1..Len(KEY_TO_CAMELOT)}
                   \cup {pitch_classes[i] \o <<" ">> \o mode :
                            i \in 1..12, mode \in {Maj, Min}}
                   \cup {UnknownKey}
    /\ recs = NoRecs
    /\ key_pc = "given"

DetectKey ==
    /\ key_pc = "detect"
    /\ key_str' = DetectKeyOf(chroma_sums)
    /\ key_pc' = "detected"
    /\ UNCHANGED <<chroma_sums, impl, recs, otherThanKey>>

\* except Exception: return "Unknown Key" (the chroma analysis raised)
DetectKeyRaises ==
    /\ key_pc = "detect"
    /\ key_str' = UnknownKey
    /\ key_pc' = "detect failed"
    /\ UNCHANGED <<chroma_sums, impl, recs, otherThanKey>>

GetHarmonicRecommendations ==
    /\ key_pc \in {"detected", "detect failed", "given"}
    /\ recs' = HarmonicRecommendations(impl, key_str)
    /\ key_pc' = IF key_pc = "given" THEN "recommended given" ELSE "recommended"
    /\ UNCHANGED <<chroma_sums, impl, key_str, otherThanKey>>

----------------------------------------------------------------------------
(* apply_crossfade, src/app.py:344-369, and its call on a one-shot,         *)
(* src/app.py:722.  A sample is a rational <<numerator, denominator>>, so   *)
(* that the ramps of np.linspace are exact.                                 *)

Rational(n) == <<n, 1>>
Times(q, num, den) == <<q[1] * num, q[2] * den>>
SameValue(p, q) == p[1] * q[2] = q[1] * p[2]

\* np.linspace(0, 1, n)[j] and np.linspace(1, 0, n)[j], j from 0; the only
\* point of a ramp of one sample is its start
FadeInGain(j, n)  == IF n = 1 THEN <<0, 1>> ELSE <<j, n - 1>>
FadeOutGain(j, n) == IF n = 1 THEN <<1, 1>> ELSE <<n - 1 - j, n - 1>>

ApplyCrossfade(y, fade_samples) ==
    LET N == Len(y)
        n == Min2(fade_samples, N \div 2)
    IN  IF fade_samples = 0 \/ n = 0 THEN y
        ELSE [i \in 1..N |->
                IF i <= n
                THEN Times(y[i], FadeInGain(i - 1, n)[1], FadeInGain(i - 1, n)[2])
                ELSE IF i > N - n
                THEN Times(y[i], FadeOutGain(i - (N - n) - 1, n)[1],
                                 FadeOutGain(i - (N - n) - 1, n)[2])
                ELSE y[i]]

\* int(0.005 * sample_rate)
ShortFadeSamples(sample_rate) == (5 * sample_rate) \div 1000

\* inputs of the model: sample rates low enough for 5 ms to be a few samples,
\* fragments of samples that are not zero
FadeRates    == {100, 200, 400, 800}
SampleValues == {-2, 3}
Clips        == UNION {[1..n -> {Rational(v) : v \in SampleValues}] : n \in 0..MaxClip}

FadeIdle == slice_data = <<>> /\ fade_sr = 0 /\ faded = <<>> /\ fade_pc = "off"

FadeInit ==
    /\ slice_data \in Clips
    /\ fade_sr \in FadeRates
    /\ faded = <<>>
    /\ fade_pc = "call"

\* slice_data = apply_crossfade(slice_data, int(0.005 * sample_rate))
OneShotFade ==
    /\ fade_pc = "call"
    /\ faded' = ApplyCrossfade(slice_data, ShortFadeSamples(fade_sr))
    /\ fade_pc' = "returned"
    /\ UNCHANGED <<slice_data, fade_sr, otherThanFade>>

----------------------------------------------------------------------------
(* apply_filter_modulation, src/app.py:274-342.  scipy's butter and lfilter *)
(* are modelled by what the function relies on: butter raises ValueError    *)
(* unless 0 < cutoff < fs / 2 and otherwise gives the coefficients of a     *)
(* second-order section (whole numbers stand for its floats, one pair of    *)
(* feedback coefficients for each cutoff), lfilter is the transposed        *)
(* direct-form II recurrence with its state handed in and out.              *)

LowPass  == "Low-pass"
HighPass == "High-pass"
NoFilter == "None"

\* np.clip(x, lo, hi) is minimum(maximum(x, lo), hi), also when lo > hi
Clip(x, lo, hi) == Min2(Max2(x, lo), hi)

FailsafeCutoff == 20

\* signal.butter(2, cutoff, btype, fs): the test on the critical frequency
ButterRaises(cutoff, fs) == ~(0 < 2 * cutoff /\ 2 * cutoff < fs)

\* ... and its coefficients, a[0] = 1
Butter(cutoff, btype) ==
    [b |-> IF btype = LowPass THEN <<1, 2, 1>> ELSE <<1, -2, 1>>,
     a |-> CASE cutoff = FailsafeCutoff -> <<1, 2, 1>>
             [] cutoff = 500  -> <<1, 0, 1>>
             [] cutoff = 1000 -> <<1, -1, 1>>
             [] cutoff = 1500 -> <<1, 1, 0>>
             [] OTHER -> <<1, 0, 0>>]

\* signal.lfilter_zi(b, a): the state of the step response at rest
LfilterZi(c) ==
    LET gain == (c.b[1] + c.b[2] + c.b[3]) \div (1 + c.a[2] + c.a[3])
    IN  <<c.b[2] + c.b[3] - (c.a[2] + c.a[3]) * gain, c.b[3] - c.a[3] * gain>>

\* signal.lfilter(b, a, x, zi=zi): the output and the final state
RECURSIVE Lfilter(_, _, _)
Lfilter(c, x, zi) ==
    IF x = <<>> THEN [y |-> <<>>, zf |-> zi]
    ELSE LET out  == c.b[1] * x[1] + zi[1]
             z    == <<c.b[2] * x[1] - c.a[2] * out + zi[2],
                       c.b[3] * x[1] - c.a[3] * out>>
             rest == Lfilter(c, Tail(x), z)
         IN  [y |-> <<out>> \o rest.y, zf |-> rest.zf]

\* frame_size = 512; if N < frame_size: frame_size = N
FrameSizeOf(N) == IF N < FrameSize THEN N ELSE FrameSize

\* range(0, N, frame_size)
NumFrames(N) == IF N = 0 THEN 0 ELSE (N + FrameSizeOf(N) - 1) \div FrameSizeOf(N)

\* np.mean(cutoff_modulation[frame_start:frame_end]) of
\* np.clip(freq + lfo_value * depth, 20.0, sr / 2.0 - 100.0), the LFO being
\* level over a frame
AvgCutoff(freq, depth, lfo2, sr) ==
    Clip(freq + (lfo2 * depth) \div 2, FailsafeCutoff, sr \div 2 - 100)

\* the names b, a of the function before the first assignment
Unbound == [bound |-> FALSE, c |-> [b |-> <<0, 0, 0>>, a |-> <<0, 0, 0>>],
            channel |-> 0, frame |-> 0, failsafe |-> FALSE]

\* if 'b' not in locals()
NotInLocals(ba) == ~ba.bound

\* the loop over the frames of one channel: st holds zi, the names b and a,
\* the samples written to y_out and the log of the coefficients used
FilterChannel(x, channel, sr, btype, freq, depth, lfo, ba0) ==
    LET N  == Len(x)
        fs == FrameSizeOf(N)
        RECURSIVE Frames(_, _)
        Frames(k, st) ==
            IF k >= NumFrames(N) THEN st
            ELSE LET frame_start == k * fs
                     frame_end   == Min2(frame_start + fs, N)
                     frame       == SubSeq(x, frame_start + 1, frame_end)
                     avg_cutoff  == AvgCutoff(freq, depth, lfo[k + 1], sr)
                     failed      == ButterRaises(avg_cutoff, sr)
                     ba == IF ~failed
                           THEN [bound |-> TRUE, c |-> Butter(avg_cutoff, btype),
                                 channel |-> channel, frame |-> k,
                                 failsafe |-> FALSE]
                           ELSE IF NotInLocals(st.ba)
                           THEN [bound |-> TRUE,
                                 c |-> Butter(FailsafeCutoff, btype),
                                 channel |-> channel, frame |-> k,
                                 failsafe |-> TRUE]
                           ELSE st.ba
                     res == Lfilter(ba.c, frame, st.zi)
                 IN  Frames(k + 1,
                            [zi  |-> res.zf,
                             ba  |-> ba,
                             out |-> st.out \o res.y,
                             log |-> Append(st.log,
                                        [channel |-> channel, frame |-> k,
                                         failed |-> failed, used |-> ba,
                                         zi |-> st.zi])])
    IN  Frames(0, [zi  |-> LfilterZi(Butter(FailsafeCutoff, btype)),
                   ba  |-> ba0, out |-> <<>>, log |-> <<>>])

\* for channel in range(y.shape[1]), b and a living on from one channel to
\* the next
RECURSIVE FilterChannels(_, _, _, _, _, _, _, _)
FilterChannels(y, channel, sr, btype, freq, depth, lfo, acc) ==
    IF channel >= Len(y) THEN acc
    ELSE LET st == FilterChannel(y[channel + 1], channel, sr, btype, freq,
                                 depth, lfo, acc.ba)
         IN  FilterChannels(y, channel + 1, sr, btype, freq, depth, lfo,
                            [ba  |-> st.ba,
                             out |-> Append(acc.out, st.out),
                             log |-> acc.log \o st.log])

\* if y.ndim == 1: y = np.stack((y, y), axis=-1)
Stereo(y) == IF Len(y) = 1 THEN <<y[1], y[1]>> ELSE y

\* inputs of the model
FilterSamples == {-1, 2}
FilterRates   == {40, 100, 8000}
FilterFreqs   == {500}
FilterDepths  == {0, 1000}
Buffers ==
    UNION {[1..channels -> [1..n -> FilterSamples]] :
              channels \in 1..2, n \in 1..MaxFilterLen}

FmIdle ==
    /\ fm_y = <<>> /\ fm_sr = 0 /\ fm_type = NoFilter /\ fm_freq = 0
    /\ fm_depth = 0 /\ lfo_value = <<>>
    /\ y_out = <<>> /\ coef_log = <<>> /\ fm_pc = "off"

FmInit ==
    /\ fm_y \in Buffers
    /\ fm_sr \in FilterRates
    /\ fm_type \in {NoFilter, LowPass, HighPass}
    /\ fm_freq \in FilterFreqs
    /\ fm_depth \in FilterDepths
    /\ lfo_value \in [1..NumFrames(Len(fm_y[1])) -> 0..2]
    /\ y_out = <<>> /\ coef_log = <<>> /\ fm_pc = "call"

\* if depth == 0 or filter_type == "None": return y
FilterBypass ==
    /\ fm_pc = "call"
    /\ fm_depth = 0 \/ fm_type = NoFilter
    /\ y_out' = fm_y
    /\ fm_pc' = "returned"
    /\ UNCHANGED <<fmArgs, coef_log, otherThanFm>>

\* zi = signal.lfilter_zi(*signal.butter(2, 20.0, ...)) raises when 20 Hz is
\* not below fs / 2: the call is outside the try
FilterRaises ==
    /\ fm_pc = "call"
    /\ ~(fm_depth = 0 \/ fm_type = NoFilter)
    /\ ButterRaises(FailsafeCutoff, fm_sr)
    /\ fm_pc' = "raised"
    /\ UNCHANGED <<fmArgs, y_out, coef_log, otherThanFm>>

\* the loops over the channels and their frames; return y_out
FilterModulate ==
    /\ fm_pc = "call"
    /\ ~(fm_depth = 0 \/ fm_type = NoFilter)
    /\ ~ButterRaises(FailsafeCutoff, fm_sr)
    /\ LET res == FilterChannels(Stereo(fm_y), 0, fm_sr, fm_type, fm_freq,
                                 fm_depth, lfo_value,
                                 [ba |-> Unbound, out |-> <<>>, log |-> <<>>])
       IN  /\ y_out' = res.out
           /\ coef_log' = res.log
    /\ fm_pc' = "returned"
    /\ UNCHANGED <<fmArgs, otherThanFm>>

----------------------------------------------------------------------------
(* WorkflowOrchestrator, src/backend/workflow_orchestrator.py.  A module is *)
(* a record of what get_name() and is_required() return; what process()     *)
(* does is chosen when it is called.  The status callback returns.          *)

\* the modules of src/backend/modules
ModulePool ==
    {[name |-> "Input Handler",        required |-> TRUE],
     [name |-> "Audio Slicer",         required |-> TRUE],
     [name |-> "Instrumental Builder", required |-> FALSE],
     [name |-> "Lyric Extractor",      required |-> FALSE],
     [name |-> "Metadata Tagger",      required |-> FALSE]}

\* 'Lyric' in module_name, 'Instrumental' in module_name, ... on those names
NameHas(name, word) ==
    \/ word = "Lyric" /\ name = "Lyric Extractor"
    \/ word = "Instrumental" /\ name = "Instrumental Builder"

\* _should_execute_module; no name of the pool holds 'Visualizer', 'Video'
\* or 'MIDI'
ShouldExecuteModule(module) ==
    /\ ~(NameHas(module.name, "Lyric") /\ ~config.include_lyrics)
    /\ ~(NameHas(module.name, "Instrumental") /\ ~config.include_instrumental)

\* (self.current_step_index / total_steps) * 100 if total_steps > 0 else 0,
\* as a fraction <<numerator, denominator>>
ProgressPercent(index, total_steps) ==
    IF total_steps > 0 THEN <<index * 100, total_steps>> ELSE <<0, 1>>

\* the WorkflowStatus built by _update_status
StatusOf(index, current_step, is_complete, has_error) ==
    [current_step       |-> current_step,
     current_step_index |-> index,
     total_steps        |-> Len(modules),
     progress_percent   |-> ProgressPercent(index, Len(modules)),
     is_complete        |-> is_complete,
     has_error          |-> has_error]

\* _update_status: if self.status_callback: ... self.status_callback(status)
UpdateStatus(log, index, current_step, is_complete, has_error) ==
    IF status_callback
    THEN Append(log, StatusOf(index, current_step, is_complete, has_error))
    ELSE log

\* get_status
GetStatus ==
    [current_step       |-> IF current_step_index < Len(modules)
                            THEN modules[current_step_index + 1].name
                            ELSE "Complete",
     current_step_index |-> current_step_index,
     total_steps        |-> Len(modules),
     progress_percent   |-> ProgressPercent(current_step_index, Len(modules)),
     is_complete        |-> current_step_index >= Len(modules),
     has_error          |-> Len(steps_failed) > 0]

\* a failure that ends the run whatever the module
AbortsOnAny(module) == TRUE

\* if module.is_required()
AbortsOn(module) == module.required

NoResult == [returned |-> FALSE, success |-> FALSE,
             steps_completed |-> <<>>, steps_failed |-> <<>>]

WorkflowResult(success, completed, failed) ==
    [returned |-> TRUE, success |-> success,
     steps_completed |-> completed, steps_failed |-> failed]

WfIdle ==
    /\ modules = <<>> /\ config = [include_lyrics |-> FALSE, include_instrumental |-> FALSE]
    /\ status_callback = FALSE /\ current_step_index = 0
    /\ steps_completed = <<>> /\ steps_failed = <<>>
    /\ status_log = <<>> /\ process_log = <<>> /\ wf_i = 0
    /\ wf_result = NoResult /\ wf_pc = "off"

\* __init__, register_module, set_status_callback
WfInit ==
    /\ modules \in UNION {[1..n -> ModulePool] : n \in 0..MaxModules}
    /\ config \in [include_lyrics : BOOLEAN, include_instrumental : BOOLEAN]
    /\ status_callback \in BOOLEAN
    /\ current_step_index = 0
    /\ steps_completed = <<>> /\ steps_failed = <<>>
    /\ status_log = <<>> /\ process_log = <<>> /\ wf_i = 0
    /\ wf_result = NoResult /\ wf_pc = "registered"

\* execute, up to the loop: the tracking is reset
Execute ==
    /\ wf_pc = "registered"
    /\ steps_completed' = <<>> /\ steps_failed' = <<>>
    /\ current_step_index' = 0
    /\ wf_i' = 0
    /\ wf_pc' = "loop"
    /\ UNCHANGED <<wfSetup, status_log, process_log, wf_result, otherThanWf>>

\* one turn of the loop for a module the configuration leaves out
ModuleSkipped ==
    /\ wf_pc = "loop" /\ wf_i < Len(modules)
    /\ LET module == modules[wf_i + 1]
       IN  /\ ~ShouldExecuteModule(module)
           /\ current_step_index' = wf_i
           /\ status_log' = UpdateStatus(status_log, wf_i, module.name, FALSE, FALSE)
    /\ wf_i' = wf_i + 1
    /\ UNCHANGED <<wfSetup, steps_completed, steps_failed, process_log,
                   wf_result, wf_pc, otherThanWf>>

\* one turn of the loop: process() returns a result with success = True
ModuleSucceeds ==
    /\ wf_pc = "loop" /\ wf_i < Len(modules)
    /\ LET module == modules[wf_i + 1]
       IN  /\ ShouldExecuteModule(module)
           /\ current_step_index' = wf_i
           /\ process_log' = Append(process_log, [index |-> wf_i, outcome |-> "success"])
           /\ steps_completed' = Append(steps_completed, module.name)
           /\ status_log' =
                 UpdateStatus(UpdateStatus(status_log, wf_i, module.name, FALSE, FALSE),
                              wf_i, module.name, FALSE, FALSE)
    /\ wf_i' = wf_i + 1
    /\ UNCHANGED <<wfSetup, steps_failed, wf_result, wf_pc, otherThanWf>>

\* one turn of the loop: process() returns success = False or raises, and
\* the failure ends the run
ModuleFailsAndAborts ==
    /\ wf_pc = "loop" /\ wf_i < Len(modules)
    /\ LET module == modules[wf_i + 1]
       IN  /\ ShouldExecuteModule(module)
           /\ AbortsOn(module)
           /\ current_step_index' = wf_i
           /\ \E outcome \in {"failure", "raised"} :
                 process_log' = Append(process_log, [index |-> wf_i, outcome |-> outcome])
           /\ steps_failed' = Append(steps_failed, module.name)
           /\ status_log' =
                 UpdateStatus(UpdateStatus(status_log, wf_i, module.name, FALSE, FALSE),
                              wf_i, module.name, FALSE, TRUE)
           /\ wf_result' = WorkflowResult(FALSE, steps_completed, steps_failed')
    /\ wf_pc' = "returned"
    /\ UNCHANGED <<wfSetup, steps_completed, wf_i, otherThanWf>>

\* ... and the failure of a module that is not required: the loop goes on
ModuleFailsAndContinues ==
    /\ wf_pc = "loop" /\ wf_i < Len(modules)
    /\ LET module == modules[wf_i + 1]
       IN  /\ ShouldExecuteModule(module)
           /\ ~AbortsOn(module)
           /\ current_step_index' = wf_i
           /\ \E outcome \in {"failure", "raised"} :
                 process_log' = Append(process_log, [index |-> wf_i, outcome |-> outcome])
           /\ steps_failed' = Append(steps_failed, module.name)
           /\ status_log' =
                 UpdateStatus(UpdateStatus(status_log, wf_i, module.name, FALSE, FALSE),
                              wf_i, module.name, FALSE, FALSE)
    /\ wf_i' = wf_i + 1
    /\ UNCHANGED <<wfSetup, steps_completed, wf_result, wf_pc, otherThanWf>>

\* after the loop: the status "Complete" and the successful result
ExecuteCompletes ==
    /\ wf_pc = "loop" /\ wf_i = Len(modules)
    /\ status_log' = UpdateStatus(status_log, current_step_index, "Complete", TRUE, FALSE)
    /\ wf_result' = WorkflowResult(TRUE, steps_completed, steps_failed)
    /\ wf_pc' = "returned"
    /\ UNCHANGED <<wfSetup, current_step_index, steps_completed, steps_failed,
                   process_log, wf_i, otherThanWf>>

----------------------------------------------------------------------------
(* slice_stem_real, src/app.py:543-742 *)

STEM_NAMES == <<"vocals", "drums", "bass", "other", "guitar", "piano">>

BarLoopsText == <<"B", "a", "r", " ", "L", "o", "o", "p", "s">>
BarLoops(digit) == <<digit, " ">> \o BarLoopsText
OneShotsText == <<"O", "n", "e", "-", "S", "h", "o", "t", "s">>

\* the choices of the Loop Type radio
LoopChoices == {BarLoops("1"), BarLoops("2"), BarLoops("4"), OneShotsText}

\* sub in text
Contains(text, sub) ==
    \E i \in 1..(Len(text) - Len(sub) + 1) : SubSeq(text, i, i + Len(sub) - 1) = sub

\* text.split(" ")[0]
FirstWord(text) ==
    IF \E i \in 1..Len(text) : text[i] = " "
    THEN SubSeq(text, 1, (CHOOSE i \in 1..Len(text) :
                             text[i] = " " /\ \A j \in 1..(i - 1) : text[j] # " ") - 1)
    ELSE text

IsBarLoops(choice) == Contains(choice, BarLoopsText)
IsOneShots(choice) == ~IsBarLoops(choice) /\ Contains(choice, OneShotsText)

\* a stem list that takes the drums for a melodic stem
IsMelodicOrDrums(name) == name \in {"vocals", "drums", "bass", "guitar", "piano", "other"}

IsMelodic(name) == name \in {"vocals", "bass", "guitar", "piano", "other"}

BeatsPerBar(signature) == IF signature = "3/4" THEN 3 ELSE 4

\* round(60/bpm * beats_per_bar * bars * sample_rate), to the nearest sample
LoopDurationSamplesRounded(b10, beats_per_bar, bars, sample_rate) ==
    RoundHalfEven(600 * beats_per_bar * bars * sample_rate, b10)

\* int((60.0 / manual_bpm * beats_per_bar * bars) * sample_rate), manual_bpm = b10 / 10
LoopDurationSamples(b10, beats_per_bar, bars, sample_rate) ==
    (600 * beats_per_bar * bars * sample_rate) \div b10

MaxLoops == 16
MaxOneShots == 40
MinOneShotSamples == 100
hop_length == 512

\* an effect chain that normalizes before it modulates
BufferStagesNormalizeFirst ==
    (IF transpose_semitones # 0 THEN <<"pitch_shift">> ELSE <<>>)
        \o (IF filter_depth > 0 /\ filter_type # "None"
            THEN <<"filter_modulation">> ELSE <<>>)
        \o (IF target_dbfs10 < 0 THEN <<"normalization">> ELSE <<>>)
        \o (IF pan_depth > 0 \/ level_depth > 0 THEN <<"modulation">> ELSE <<>>)

\* lines 578-594: the effects applied to the whole buffer, in the order in
\* which they run (pan_depth / 100.0 > 0 is pan_depth > 0)
BufferStages ==
    (IF transpose_semitones # 0 THEN <<"pitch_shift">> ELSE <<>>)
        \o (IF filter_depth > 0 /\ filter_type # "None"
            THEN <<"filter_modulation">> ELSE <<>>)
        \o (IF pan_depth > 0 \/ level_depth > 0 THEN <<"modulation">> ELSE <<>>)
        \o (IF target_dbfs10 < 0 THEN <<"normalization">> ELSE <<>>)

\* lines 671 and 680: apply_crossfade with int((crossfade_ms / 1000.0) *
\* sample_rate) samples returns the clip untouched when there is nothing to fade
LoopStages(sample_rate, N) ==
    IF Min2((crossfade_ms * sample_rate) \div 1000, N \div 2) > 0
    THEN <<"crossfade">> ELSE <<>>

\* lines 719-722: the envelope, then the 5 ms fade
OneShotStages(sample_rate, N) ==
    (IF N > 0 THEN <<"envelope">> ELSE <<>>)
        \o (IF Min2(ShortFadeSamples(sample_rate), N \div 2) > 0
            THEN <<"fade">> ELSE <<>>)

\* text.split(sep)
RECURSIVE Split(_, _)
Split(text, sep) ==
    IF \A i \in 1..Len(text) : text[i] # sep THEN <<text>>
    ELSE LET i == CHOOSE k \in 1..Len(text) :
                     text[k] = sep /\ \A j \in 1..(k - 1) : text[j] # sep
         IN  <<SubSeq(text, 1, i - 1)>> \o Split(SubSeq(text, i + 1, Len(text)), sep)

\* text.replace(" ", "")
RemoveSpaces(text) == SelectSeq(text, LAMBDA c : c # " ")

\* f"{n}" for any integer
FormatSigned(n) == IF n < 0 THEN <<"-">> \o FormatInt(-n) ELSE FormatInt(n)

\* pitch_classes.index(root), from 0; -1 stands for the ValueError
IndexOfRoot(root) ==
    IF \E i \in 1..12 : pitch_classes[i] = root
    THEN (CHOOSE i \in 1..12 : pitch_classes[i] = root) - 1
    ELSE -1

ShiftText == <<"S", "h", "i", "f", "t">>

\* a shift that ignores the direction of the transposition
KeyTagOfUnsigned(key, transpose) ==
    IF key = UnknownKey THEN RemoveSpaces(UnknownKey)
    ELSE IF transpose = 0 THEN RemoveSpaces(key)
    ELSE LET root == Split(key, " ")[1]
             mode == Split(key, " ")[2]
             current_index == IndexOfRoot(root)
             magnitude == IF transpose < 0 THEN -transpose ELSE transpose
         IN  IF current_index = -1
             THEN ShiftText \o <<"e", "d">> \o FormatSigned(transpose)
             ELSE pitch_classes[((current_index + magnitude) % 12) + 1] \o mode \o ShiftText

\* lines 596-610: key_tag (a % b has the sign of b, in Python as here)
KeyTagOf(key, transpose) ==
    IF key = UnknownKey THEN RemoveSpaces(UnknownKey)
    ELSE IF transpose = 0 THEN RemoveSpaces(key)
    ELSE LET root == Split(key, " ")[1]
             mode == Split(key, " ")[2]
             current_index == IndexOfRoot(root)
         IN  IF current_index = -1
             THEN ShiftText \o <<"e", "d">> \o FormatSigned(transpose)
             ELSE pitch_classes[((current_index + transpose) % 12) + 1] \o mode \o ShiftText

\* bpm_int = int(round(manual_bpm))
BpmInt(b10) == RoundHalfEven(b10, 10)

\* a stem name, character by character
StemChars(name) ==
    CASE name = "vocals" -> <<"v", "o", "c", "a", "l", "s">>
      [] name = "drums"  -> <<"d", "r", "u", "m", "s">>
      [] name = "bass"   -> <<"b", "a", "s", "s">>
      [] name = "other"  -> <<"o", "t", "h", "e", "r">>
      [] name = "guitar" -> <<"g", "u", "i", "t", "a", "r">>
      [] name = "piano"  -> <<"p", "i", "a", "n", "o">>

\* an ordinal written without leading zeros
Pad3NoZeros(n) == FormatInt(n)

\* f"{n:03d}"
Pad3(n) ==
    IF n < 10 THEN <<"0", "0">> \o FormatInt(n)
    ELSE IF n < 100 THEN <<"0">> \o FormatInt(n)
    ELSE FormatInt(n)

\* f"..._{key_tag}_{bpm_int}BPM" and the extension
NameTail(ext) ==
    <<"_">> \o KeyTagOf(detected_key, transpose_semitones) \o <<"_">>
        \o FormatInt(BpmInt(manual_bpm10)) \o <<"B", "P", "M", ".">> \o ext

\* a file is known by the stem it belongs to (each stem has its own
\* directory), its kind, its ordinal, the samples it holds, the stages that
\* worked on them and its name (lines 683, 725)
WavFile(name, tag, ordinal, start_sample, end_sample, stages) ==
    [stem |-> name, ext |-> "wav", tag |-> tag, ordinal |-> ordinal,
     start |-> start_sample, end |-> end_sample, stages |-> stages,
     notes |-> <<>>,
     path |-> StemChars(name) \o <<"_">> \o tag \o <<"_">> \o Pad3(ordinal)
                 \o NameTail(<<"w", "a", "v">>)]

\* line 655
MidFile(name, notes) ==
    [stem |-> name, ext |-> "mid", tag |-> <<"M", "E", "L", "O", "D", "Y">>, ordinal |-> 0,
     start |-> 0, end |-> 0, stages |-> BufferStages,
     notes |-> notes,
     path |-> StemChars(name) \o <<"_", "M", "E", "L", "O", "D", "Y">>
                 \o NameTail(<<"m", "i", "d">>)]

\* a slicer that also emits the partial loop left at the end of the buffer
BarLoopFilesKeepTail(name, choice, b10, signature, audio) ==
    LET bars == ParseInt(FirstWord(choice))
        loop_duration_samples ==
            LoopDurationSamples(b10, BeatsPerBar(signature), bars, audio.sr)
    IN  IF loop_duration_samples > 0 /\ audio.len > loop_duration_samples
        THEN LET num_loops ==
                     (audio.len + loop_duration_samples - 1) \div loop_duration_samples
             IN  [i \in 1..Min2(num_loops, MaxLoops) |->
                    WavFile(name, FormatInt(bars) \o <<"B", "a", "r">>, i,
                            (i - 1) * loop_duration_samples,
                            Min2((i - 1) * loop_duration_samples + loop_duration_samples,
                                 audio.len),
                            BufferStages
                                \o LoopStages(audio.sr,
                                      Min2(loop_duration_samples,
                                           audio.len - (i - 1) * loop_duration_samples)))]
        ELSE <<>>

\* lines 667-685
BarLoopFiles(name, choice, b10, signature, audio) ==
    LET bars == ParseInt(FirstWord(choice))
        loop_duration_samples ==
            LoopDurationSamples(b10, BeatsPerBar(signature), bars, audio.sr)
    IN  IF loop_duration_samples > 0 /\ audio.len > loop_duration_samples
        THEN LET num_loops == audio.len \div loop_duration_samples
             IN  [i \in 1..Min2(num_loops, MaxLoops) |->
                    WavFile(name, FormatInt(bars) \o <<"B", "a", "r">>, i,
                            (i - 1) * loop_duration_samples,
                            Min2((i - 1) * loop_duration_samples + loop_duration_samples,
                                 audio.len),
                            BufferStages
                                \o LoopStages(audio.sr,
                                      Min2(loop_duration_samples,
                                           audio.len - (i - 1) * loop_duration_samples)))]
        ELSE <<>>

\* lines 706-727: fragment i runs from onset i to onset i + 1, the end of the
\* buffer being the last onset; a fragment under 100 samples is skipped
OnsetSamples(frames, audio) == Append([i \in 1..Len(frames) |-> frames[i] * hop_length],
                                      audio.len)

OneShotCandidates(name, frames, audio) ==
    LET onset_samples == OnsetSamples(frames, audio)
    IN  [i \in 1..Min2(Len(onset_samples) - 1, MaxOneShots) |->
            LET start_sample == Min2(onset_samples[i], audio.len)
                end_sample   == Max2(start_sample, Min2(onset_samples[i + 1], audio.len))
            IN  WavFile(name, <<"O", "n", "e", "S", "h", "o", "t">>, i,
                        start_sample, end_sample,
                        BufferStages \o OneShotStages(audio.sr, end_sample - start_sample))]

\* a slicer that keeps the fragments of under 100 samples
OneShotFilesNoSkip(name, frames, audio) == OneShotCandidates(name, frames, audio)

OneShotFiles(name, frames, audio) ==
    SelectSeq(OneShotCandidates(name, frames, audio),
              LAMBDA f : f.end - f.start >= MinOneShotSamples)

\* lines 629-652: merge the frames of one pitch into a note [note, i, frames],
\* keep the runs of at least 2 frames
\* a run that ends at the next unpitched frame only
RECURSIVE RunEndAtSilence(_, _, _)
RunEndAtSilence(line, j, current_midi) ==
    IF j <= Len(line) /\ line[j] # 0 THEN RunEndAtSilence(line, j + 1, current_midi) ELSE j

\* while j < len(main_pitch_line) and freq_to_midi(main_pitch_line[j]) == current_midi
RECURSIVE RunEnd(_, _, _)
RunEnd(line, j, current_midi) ==
    IF j <= Len(line) /\ line[j] = current_midi THEN RunEnd(line, j + 1, current_midi) ELSE j

RECURSIVE Transcribe(_, _, _)
Transcribe(line, i, notes) ==
    IF i > Len(line) THEN notes
    ELSE IF line[i] = 0 THEN Transcribe(line, i + 1, notes)
    ELSE LET j == RunEnd(line, i, line[i])
             duration_frames == j - i
         IN  Transcribe(line, j,
                        IF duration_frames >= 2
                        THEN Append(notes, [note |-> line[i], start_frame |-> i - 1,
                                            frames |-> duration_frames])
                        ELSE notes)

\* librosa.frames_to_time(frames, sr=sample_rate, hop_length=hop_length), in
\* milliseconds: a whole number at the rates of the model
FramesToMs(frames, sample_rate) == (frames * hop_length * 1000) \div sample_rate

\* notes_list.append((current_midi, start_sec, duration_sec))
NotesList(notes, sample_rate) ==
    [k \in 1..Len(notes) |->
        [note  |-> notes[k].note,
         start |-> FramesToMs(notes[k].start_frame, sample_rate),
         dur   |-> FramesToMs(notes[k].frames, sample_rate)]]

\* pitch tracks of two runs: unpitched frames, a run of one pitch, at most
\* one unpitched frame, a run of two frames of another pitch
MelodyLine(lead, run, gap) ==
    [i \in 1..lead |-> 0] \o [i \in 1..run |-> 60] \o [i \in 1..gap |-> 0] \o <<62, 62>>

MelodyRates == {16000, 32000}

\* write_midi_file as slice_stem_real calls it: on the notes of a pitch track
MelodyInit ==
    /\ notes_list \in
          {<<>>} \cup
          {NotesList(Transcribe(MelodyLine(lead, run, gap), 1, <<>>), rate) :
              lead \in 0..MaxLead, run \in 2..MaxRun, gap \in 0..1,
              rate \in MelodyRates}
    /\ bpm10 \in Bpm10s
    /\ midi_pc = "call"
    /\ midi_file = <<>>
    /\ midi_log = <<>>

\* lines 615-660: one MIDI file when the stem is melodic, the mode is bar
\* loops, a note is retained and write_midi_file returns; line.raises is a
\* pitch tracker that raised, which the inner except swallows
MidiFiles(name, choice, b10, line) ==
    IF /\ IsMelodic(name) /\ IsBarLoops(choice)
       /\ ~line.raises
       /\ Transcribe(line.midi, 1, <<>>) # <<>>
       /\ FitsBytes(TempoUsPerBeat(b10), 3)
    THEN <<MidFile(name, Transcribe(line.midi, 1, <<>>))>>
    ELSE <<>>

\* every file a call writes when nothing raises, in the order of output_files
SliceFiles(name, audio, choice, b10, signature, line, frames) ==
    MidiFiles(name, choice, b10, line)
        \o (IF IsBarLoops(choice) THEN BarLoopFiles(name, choice, b10, signature, audio)
            ELSE IF IsOneShots(choice) THEN OneShotFiles(name, frames, audio)
            ELSE <<>>)

\* a result that keeps the files written before the exception
StemReturnPartial(written, raised) == written

\* lines 736-742: return output_files, or [] from the except clause
StemReturn(written, raised) == IF raised THEN <<>> ELSE written

Range(q) == {q[i] : i \in 1..Len(q)}

\* a stem slot that holds no audio
None == [none |-> TRUE, sr |-> 0, len |-> 0]

\* a pitch track that was not computed
NoPitchLine == [raises |-> FALSE, midi |-> <<>>]

\* inputs of the model
SampleRates == {22050, 44100}
BufferLens  == {0, 1100, 88200, 88201, 176252, 441000, 1500000}
SliceBpm10s == {30, 1200, 1201}
PitchValues == {0, 60, 62}
PitchLines  == {[raises |-> FALSE, midi |-> l] :
                   l \in UNION {[1..n -> PitchValues] : n \in 0..MaxFrames}}
               \cup {[raises |-> TRUE, midi |-> <<>>]}
OnsetLists  == {[i \in 1..n |-> first + (i - 1) * step] :
                   n \in 0..MaxOnsets, first \in 0..1, step \in 0..2}
               \cup {[i \in 1..(MaxOneShots + 2) |-> i - 1]}
Audios      == [none : {FALSE}, sr : SampleRates, len : BufferLens]

\* what the libraries can report for a buffer in a mode: onsets lie inside the
\* buffer and are looked for in one-shot mode only, a pitch track is computed
\* for a melodic stem in bar-loop mode only
ConsistentInputs(name, audio, choice, line, frames) ==
    /\ IF audio # None /\ audio.len > 0 /\ IsOneShots(choice)
       THEN \A i \in 1..Len(frames) : frames[i] * hop_length < audio.len
       ELSE frames = <<>>
    /\ IF audio # None /\ audio.len > 0 /\ IsMelodic(name) /\ IsBarLoops(choice)
       THEN TRUE
       ELSE line = NoPitchLine

\* longer pitch tracks, for the transcription
LongPitchLines ==
    {[raises |-> FALSE, midi |-> l] :
        l \in UNION {[1..n -> PitchValues] : n \in 0..MaxLine}}
    \cup {[raises |-> TRUE, midi |-> <<>>]}

\* the values the controls of the interface start with, src/app.py:901-922
DefaultSettings ==
    /\ transpose_semitones = 0 /\ detected_key = Label(<<"C">>, Maj)
    /\ filter_type = "None" /\ filter_depth = 0 /\ pan_depth = 0 /\ level_depth = 0
    /\ target_dbfs10 = -10 /\ crossfade_ms = 10

SliceIdle ==
    /\ stem_audio = None /\ stem_name = "" /\ loop_choice = <<>>
    /\ manual_bpm10 = 0 /\ time_signature = "" /\ main_pitch_line = NoPitchLine
    /\ onset_frames = <<>> /\ output_files = <<>> /\ slice_pc = "off" /\ disk = {} /\ temp_dirs = 0
    /\ transpose_semitones = 0 /\ detected_key = <<>> /\ filter_type = ""
    /\ filter_depth = 0 /\ pan_depth = 0 /\ level_depth = 0 /\ target_dbfs10 = 0
    /\ crossfade_ms = 0

SliceInit ==
    /\ stem_audio \in Audios \cup {None}
    /\ stem_name \in {"vocals", "drums"}
    /\ loop_choice \in LoopChoices
    /\ manual_bpm10 \in SliceBpm10s
    /\ time_signature \in {"4/4", "3/4"}
    /\ main_pitch_line \in PitchLines
    /\ onset_frames \in OnsetLists
    /\ ConsistentInputs(stem_name, stem_audio, loop_choice, main_pitch_line, onset_frames)
    /\ DefaultSettings
    /\ output_files = <<>>
    /\ slice_pc = "call"
    /\ disk = {} /\ temp_dirs = 0

\* a 10 s buffer and an empty one
ZipAudios == {[none |-> FALSE, sr |-> 44100, len |-> 441000],
              [none |-> FALSE, sr |-> 44100, len |-> 0]}

\* the labels detect_key can return, src/app.py:191-202
DetectableKeys == {Label(pitch_classes[i], mode) : i \in 1..12, mode \in {Maj, Min}}

Transposes == -12..12

\* the same call for every key and every position of the transpose slider
NamesInit ==
    /\ stem_audio \in ZipAudios
    /\ stem_name \in {"vocals", "drums"}
    /\ loop_choice \in {BarLoops("4"), OneShotsText}
    /\ manual_bpm10 \in {1200, 1205, 1215}
    /\ time_signature = "4/4"
    /\ main_pitch_line \in {NoPitchLine, [raises |-> FALSE, midi |-> <<60, 60>>]}
    /\ onset_frames \in {<<>>, <<0, 2>>}
    /\ ConsistentInputs(stem_name, stem_audio, loop_choice, main_pitch_line, onset_frames)
    /\ transpose_semitones \in Transposes
    /\ detected_key \in DetectableKeys \cup {UnknownKey}
    /\ filter_type = "None" /\ filter_depth = 0 /\ pan_depth = 0 /\ level_depth = 0
    /\ target_dbfs10 = -10 /\ crossfade_ms = 10
    /\ output_files = <<>>
    /\ slice_pc = "call"
    /\ disk = {} /\ temp_dirs = 0

\* the same call with the effect controls moved
FilterTypes == {"None", "Low-pass", "High-pass"}

TranscribeInit ==
    /\ stem_audio \in ZipAudios
    /\ stem_name \in {"vocals", "drums"}
    /\ loop_choice \in {BarLoops("4"), OneShotsText}
    /\ manual_bpm10 = 1200
    /\ time_signature = "4/4"
    /\ main_pitch_line \in LongPitchLines
    /\ onset_frames \in {<<>>, <<0, 2>>}
    /\ ConsistentInputs(stem_name, stem_audio, loop_choice, main_pitch_line, onset_frames)
    /\ DefaultSettings
    /\ output_files = <<>>
    /\ slice_pc = "call"
    /\ disk = {} /\ temp_dirs = 0

StagesInit ==
    /\ stem_audio \in ZipAudios
    /\ stem_name \in {"vocals", "drums"}
    /\ loop_choice \in {BarLoops("4"), OneShotsText}
    /\ manual_bpm10 = 1200
    /\ time_signature = "4/4"
    /\ main_pitch_line \in {NoPitchLine, [raises |-> FALSE, midi |-> <<60, 60>>]}
    /\ onset_frames \in {<<>>, <<0, 2>>}
    /\ ConsistentInputs(stem_name, stem_audio, loop_choice, main_pitch_line, onset_frames)
    /\ transpose_semitones \in {-1, 0, 2}
    /\ detected_key = Label(<<"C">>, Maj)
    /\ filter_type \in FilterTypes
    /\ filter_depth \in {0, 100}
    /\ pan_depth \in {0, 50}
    /\ level_depth \in {0, 50}
    /\ target_dbfs10 \in {-10, 0}
    /\ crossfade_ms \in {0, 10}
    /\ output_files = <<>>
    /\ slice_pc = "call"
    /\ disk = {} /\ temp_dirs = 0

\* a validation that comes after loops_dir = tempfile.mkdtemp()
SliceStemEmptyAfterMkdtemp ==
    /\ slice_pc = "call"
    /\ stem_audio = None \/ stem_audio.len = 0
    /\ output_files' = <<>>
    /\ temp_dirs' = temp_dirs + 1
    /\ slice_pc' = "returned"
    /\ UNCHANGED <<sliceArgs, disk, otherThanSlice>>

\* if stem_audio_tuple is None / if y.ndim == 0 or len(y) == 0: return [], None
\* (lines 567-576, before loops_dir = tempfile.mkdtemp() at line 614)
SliceStemEmpty ==
    /\ slice_pc = "call"
    /\ stem_audio = None \/ stem_audio.len = 0
    /\ output_files' = <<>>
    /\ slice_pc' = "returned"
    /\ UNCHANGED <<sliceArgs, disk, temp_dirs, otherThanSlice>>

SliceStemReal ==
    /\ slice_pc = "call"
    /\ stem_audio # None /\ stem_audio.len > 0
    /\ LET written == SliceFiles(stem_name, stem_audio, loop_choice, manual_bpm10,
                                 time_signature, main_pitch_line, onset_frames)
       IN  /\ output_files' = StemReturn(written, FALSE)
           /\ disk' = disk \cup Range(written)
    /\ temp_dirs' = temp_dirs + 1
    /\ slice_pc' = "returned"
    /\ UNCHANGED <<sliceArgs, otherThanSlice>>

\* an exception anywhere in the body (an effect, a write, the preview) after
\* the first k files were written: except Exception: return [], None; an
\* effect raises before loops_dir is made, a write after
SliceStemRaises ==
    /\ slice_pc = "call"
    /\ stem_audio # None /\ stem_audio.len > 0
    /\ LET files == SliceFiles(stem_name, stem_audio, loop_choice, manual_bpm10,
                               time_signature, main_pitch_line, onset_frames)
       IN  \E k \in 0..Len(files), made \in 0..1 :
              /\ k > 0 => made = 1
              /\ output_files' = StemReturn(SubSeq(files, 1, k), TRUE)
              /\ disk' = disk \cup Range(SubSeq(files, 1, k))
              /\ temp_dirs' = temp_dirs + made
    /\ slice_pc' = "raised and returned"
    /\ UNCHANGED <<sliceArgs, otherThanSlice>>

----------------------------------------------------------------------------
(* slice_all_and_zip, src/app.py:745-827.  Every stem slot that is not None *)
(* holds the same buffer (separate_stems copies the mix into every slot);   *)
(* stems_in is the set of slots that are not None.                          *)

\* valid_stems, in the order of the stems_to_process dict
ValidStems(slots) == SelectSeq(STEM_NAMES, LAMBDA name : name \in slots)

\* what slice_stem_real writes for a stem of the run when nothing raises
StemFiles(name) ==
    IF stem_audio.none \/ stem_audio.len = 0 THEN <<>>
    ELSE SliceFiles(name, stem_audio, loop_choice, manual_bpm10, time_signature,
                    main_pitch_line, onset_frames)

\* a run that removes the fragment files before it has archived them
AfterLastStemCleanup == "cleanup"

\* line 805: after the last stem comes the archive step
AfterLastStem == "zip"

AfterStem(i, n) == IF i < n THEN "report" ELSE AfterLastStem

ZipIdle ==
    /\ stems_in = {} /\ zip_pc = "off" /\ zip_i = 0 /\ all_sliced_files = <<>>
    /\ progress_log = <<>> /\ archive = <<>> /\ zip_closed = FALSE
    /\ deleted = {} /\ failed_stems = {}

ZipPitchLines == {NoPitchLine, [raises |-> FALSE, midi |-> <<60, 60>>]}
ZipOnsetLists == {<<>>, <<0, 2>>}

ZipInit ==
    /\ stems_in \in {S \in SUBSET Range(STEM_NAMES) : Cardinality(S) <= MaxValidStems}
    /\ stem_audio \in ZipAudios
    /\ stem_name = ""
    /\ loop_choice \in {BarLoops("4"), OneShotsText}
    /\ manual_bpm10 = 1200
    /\ time_signature = "4/4"
    /\ main_pitch_line \in ZipPitchLines
    /\ onset_frames \in ZipOnsetLists
    /\ ConsistentInputs("vocals", stem_audio, loop_choice, main_pitch_line, onset_frames)
    /\ DefaultSettings
    /\ output_files = <<>> /\ slice_pc = "off" /\ disk = {} /\ temp_dirs = 0
    /\ zip_pc = "call" /\ zip_i = 0 /\ all_sliced_files = <<>>
    /\ progress_log = <<>> /\ archive = <<>> /\ zip_closed = FALSE
    /\ deleted = {} /\ failed_stems = {}

\* if not valid_stems: raise gr.Error(...), re-raised by the except clause
ZipNoStems ==
    /\ zip_pc = "call"
    /\ ValidStems(stems_in) = <<>>
    /\ zip_pc' = "raised"
    /\ UNCHANGED <<stems_in, zip_i, all_sliced_files, progress_log, archive,
                   zip_closed, deleted, failed_stems, disk, temp_dirs,
                   otherThanZip>>

\* temp_dir = tempfile.mkdtemp(); progress(0, desc="Starting...")
ZipStart ==
    /\ zip_pc = "call"
    /\ ValidStems(stems_in) # <<>>
    /\ temp_dirs' = temp_dirs + 1
    /\ progress_log' = <<<<0, 1>>>>
    /\ zip_i' = 1
    /\ zip_pc' = "report"
    /\ UNCHANGED <<stems_in, all_sliced_files, archive, zip_closed, deleted,
                   failed_stems, disk, otherThanZip>>

\* progress((i+1)/num_stems, desc=f"Slicing {name}...")
ZipReportProgress ==
    /\ zip_pc = "report"
    /\ progress_log' = Append(progress_log, <<zip_i, Len(ValidStems(stems_in))>>)
    /\ zip_pc' = "slice"
    /\ UNCHANGED <<stems_in, zip_i, all_sliced_files, archive, zip_closed, deleted,
                   failed_stems, disk, temp_dirs,
                   otherThanZip>>

\* sliced_files, _ = slice_stem_real(...); all_sliced_files.extend(sliced_files)
ZipSliceStem ==
    /\ zip_pc = "slice"
    /\ LET valid   == ValidStems(stems_in)
           written == StemFiles(valid[zip_i])
       IN  /\ all_sliced_files' = all_sliced_files \o StemReturn(written, FALSE)
           /\ disk' = disk \cup Range(written)
           /\ temp_dirs' = IF stem_audio.len = 0 THEN temp_dirs ELSE temp_dirs + 1
           /\ zip_pc' = AfterStem(zip_i, Len(valid))
           /\ zip_i' = IF zip_i < Len(valid) THEN zip_i + 1 ELSE 1
    /\ UNCHANGED <<stems_in, progress_log, archive, zip_closed, deleted,
                   failed_stems, otherThanZip>>

\* the same call when slice_stem_real catches an exception after k files
ZipSliceStemRaises ==
    /\ zip_pc = "slice"
    /\ stem_audio.len > 0
    /\ LET valid == ValidStems(stems_in)
           files == StemFiles(valid[zip_i])
       IN  /\ \E k \in 0..Len(files), made \in 0..1 :
                 /\ k > 0 => made = 1
                 /\ all_sliced_files' =
                        all_sliced_files \o StemReturn(SubSeq(files, 1, k), TRUE)
                 /\ disk' = disk \cup Range(SubSeq(files, 1, k))
                 /\ temp_dirs' = temp_dirs + made
           /\ failed_stems' = failed_stems \cup {valid[zip_i]}
           /\ zip_pc' = AfterStem(zip_i, Len(valid))
           /\ zip_i' = IF zip_i < Len(valid) THEN zip_i + 1 ELSE 1
    /\ UNCHANGED <<stems_in, progress_log, archive, zip_closed, deleted, otherThanZip>>

\* progress(0.9, desc="Zipping files..."), the archive is opened
ZipBegin ==
    /\ zip_pc = "zip"
    /\ progress_log' = Append(progress_log, <<9, 10>>)
    /\ zip_i' = 1
    /\ zip_pc' = "write"
    /\ UNCHANGED <<stems_in, all_sliced_files, archive, zip_closed, deleted,
                   failed_stems, disk, temp_dirs,
                   otherThanZip>>

\* zf.write(file_path, arcname)
ZipWriteFile ==
    /\ zip_pc = "write"
    /\ zip_i <= Len(all_sliced_files)
    /\ all_sliced_files[zip_i] \in disk
    /\ archive' = Append(archive, all_sliced_files[zip_i])
    /\ zip_i' = zip_i + 1
    /\ UNCHANGED <<stems_in, zip_pc, all_sliced_files, progress_log, zip_closed,
                   deleted, failed_stems, disk, temp_dirs,
                   otherThanZip>>

\* opening, writing or closing the archive raises: except ... raise gr.Error
ZipWriteRaises ==
    /\ zip_pc = "write"
    /\ zip_pc' = "raised"
    /\ UNCHANGED <<stems_in, zip_i, all_sliced_files, progress_log, archive,
                   zip_closed, deleted, failed_stems, disk, temp_dirs,
                   otherThanZip>>

\* the with block ends; progress(1.0, desc="Done!")
ZipClose ==
    /\ zip_pc = "write"
    /\ zip_i > Len(all_sliced_files)
    /\ zip_closed' = TRUE
    /\ progress_log' = Append(progress_log, <<1, 1>>)
    /\ zip_i' = 1
    /\ zip_pc' = "cleanup"
    /\ UNCHANGED <<stems_in, all_sliced_files, archive, deleted, failed_stems,
                   disk, temp_dirs,
                   otherThanZip>>

\* if file_path and os.path.exists(file_path): os.remove(file_path)
CleanupFile ==
    /\ zip_pc = "cleanup"
    /\ zip_i <= Len(all_sliced_files)
    /\ LET file_path == all_sliced_files[zip_i]
       IN  /\ disk' = disk \ {file_path}
           /\ deleted' = IF file_path \in disk THEN deleted \cup {file_path} ELSE deleted
    /\ zip_i' = zip_i + 1
    /\ UNCHANGED <<stems_in, zip_pc, all_sliced_files, progress_log, archive,
                   zip_closed, failed_stems, temp_dirs, otherThanZip>>

\* os.remove raises: except ... raise gr.Error
CleanupRaises ==
    /\ zip_pc = "cleanup"
    /\ zip_i <= Len(all_sliced_files)
    /\ all_sliced_files[zip_i] \in disk
    /\ zip_pc' = "raised"
    /\ UNCHANGED <<stems_in, zip_i, all_sliced_files, progress_log, archive,
                   zip_closed, deleted, failed_stems, disk, temp_dirs,
                   otherThanZip>>

\* return zip_path
ZipReturn ==
    /\ zip_pc = "cleanup"
    /\ zip_i > Len(all_sliced_files)
    /\ zip_pc' = "returned"
    /\ UNCHANGED <<stems_in, zip_i, all_sliced_files, progress_log, archive,
                   zip_closed, deleted, failed_stems, disk, temp_dirs,
                   otherThanZip>>

----------------------------------------------------------------------------
(* A reader of Standard MIDI track data, used to state what a well-formed   *)
(* track is: delta-time, status byte, then for a meta event the type, the   *)
(* declared length and that many data bytes.                                *)

RECURSIVE ReadVlq(_, _, _)
ReadVlq(b, pos, acc) ==
    IF pos > Len(b) THEN [ok |-> FALSE, value |-> 0, next |-> pos]
    ELSE IF b[pos] >= 128 THEN ReadVlq(b, pos + 1, acc * 128 + (b[pos] - 128))
    ELSE [ok |-> TRUE, value |-> acc * 128 + b[pos], next |-> pos + 1]

ChannelDataBytes(status) == IF (status \div 16) \in {12, 13} THEN 1 ELSE 2

ParseFailed == [ok |-> FALSE, events |-> <<>>]

RECURSIVE ParseEvents(_, _, _, _)
ParseEvents(b, pos, running, events) ==
    IF pos > Len(b) THEN [ok |-> TRUE, events |-> events]
    ELSE LET d == ReadVlq(b, pos, 0) IN
         IF ~d.ok \/ d.next > Len(b) THEN ParseFailed
         ELSE LET status == b[d.next] IN
              IF status = 255
              THEN IF d.next + 1 > Len(b) THEN ParseFailed
                   ELSE LET l == ReadVlq(b, d.next + 2, 0) IN
                        IF ~l.ok \/ l.next + l.value - 1 > Len(b) THEN ParseFailed
                        ELSE ParseEvents(b, l.next + l.value, 0,
                                 Append(events,
                                        [kind |-> "meta", delta |-> d.value,
                                         type |-> b[d.next + 1], len |-> l.value,
                                         data |-> SubSeq(b, l.next, l.next + l.value - 1)]))
              ELSE IF status \in 128..239
              THEN LET n == ChannelDataBytes(status) IN
                   IF d.next + n > Len(b)
                      \/ \E i \in 1..n : b[d.next + i] >= 128
                   THEN ParseFailed
                   ELSE ParseEvents(b, d.next + n + 1, status,
                            Append(events,
                                   [kind |-> "channel", delta |-> d.value,
                                    type |-> status, len |-> n,
                                    data |-> SubSeq(b, d.next + 1, d.next + n)]))
              ELSE IF status < 128 /\ running # 0
              THEN LET n == ChannelDataBytes(running) IN
                   IF d.next + n - 1 > Len(b)
                      \/ \E i \in 0..(n - 1) : b[d.next + i] >= 128
                   THEN ParseFailed
                   ELSE ParseEvents(b, d.next + n, running,
                            Append(events,
                                   [kind |-> "channel", delta |-> d.value,
                                    type |-> running, len |-> n,
                                    data |-> SubSeq(b, d.next, d.next + n - 1)]))
              ELSE ParseFailed

\* the parts of a written file: 14 header bytes, "MTrk", the length field, the track
FileTrackLength(file) == FromBytesBig(SubSeq(file, 19, 22))
FileTrackData(file)   == SubSeq(file, 23, Len(file))

IsMeta(e, type) == e.kind = "meta" /\ e.type = type
IsNote(e)       == e.kind = "channel" /\ (e.type \div 16) \in {8, 9}

TrackWellFormed(file) ==
    LET track == FileTrackData(file)
        p     == ParseEvents(track, 1, 0, <<>>)
        ev    == p.events
    IN  /\ Len(file) >= 22
        /\ SubSeq(file, 15, 18) = MTrk
        /\ FileTrackLength(file) = Len(track)
        /\ p.ok
        /\ Len(ev) >= 4
        /\ IsMeta(ev[1], 81) /\ ev[1].len = 3
        /\ IsMeta(ev[2], 88) /\ ev[2].len = 4
        /\ IsMeta(ev[3], 3)  /\ ev[3].data = TrackNameText
        /\ \A k \in 4..(Len(ev) - 1) : IsNote(ev[k])
        /\ IsMeta(ev[Len(ev)], 47) /\ ev[Len(ev)].len = 0

----------------------------------------------------------------------------
(* Specifications *)

InitVlq == VlqInit /\ MidiIdle /\ KeyIdle /\ SliceIdle /\ ZipIdle /\ FadeIdle /\ FmIdle /\ WfIdle

SpecVlq == InitVlq /\ [][VlqEncode]_vars

InitMidi == MidiInit /\ VlqIdle /\ KeyIdle /\ SliceIdle /\ ZipIdle /\ FadeIdle /\ FmIdle /\ WfIdle

MidiNext == WriteMidiEmpty \/ WriteMidiOverflow \/ WriteMidiFile

SpecMidi == InitMidi /\ [][MidiNext]_vars

InitMelody == MelodyInit /\ VlqIdle /\ KeyIdle /\ SliceIdle /\ ZipIdle /\ FadeIdle /\ FmIdle /\ WfIdle

SpecMelody == InitMelody /\ [][MidiNext]_vars

InitKey == KeyInit /\ VlqIdle /\ MidiIdle /\ SliceIdle /\ ZipIdle /\ FadeIdle /\ FmIdle /\ WfIdle

KeyNext == DetectKey \/ DetectKeyRaises \/ GetHarmonicRecommendations

SpecKey == InitKey /\ [][KeyNext]_vars

InitProfile == ProfileInit /\ VlqIdle /\ MidiIdle /\ SliceIdle /\ ZipIdle /\ FadeIdle /\ FmIdle /\ WfIdle

SpecProfile == InitProfile /\ [][KeyNext]_vars

InitCamelot == CamelotInit /\ VlqIdle /\ MidiIdle /\ SliceIdle /\ ZipIdle /\ FadeIdle /\ FmIdle /\ WfIdle

SpecCamelot == InitCamelot /\ [][GetHarmonicRecommendations]_vars

InitSlice == SliceInit /\ VlqIdle /\ MidiIdle /\ KeyIdle /\ ZipIdle /\ FadeIdle /\ FmIdle /\ WfIdle

SliceNext == SliceStemEmpty \/ SliceStemReal \/ SliceStemRaises

SpecSlice == InitSlice /\ [][SliceNext]_vars

InitStages == StagesInit /\ VlqIdle /\ MidiIdle /\ KeyIdle /\ ZipIdle /\ FadeIdle /\ FmIdle /\ WfIdle

SpecStages == InitStages /\ [][SliceNext]_vars

InitTranscribe == TranscribeInit /\ VlqIdle /\ MidiIdle /\ KeyIdle /\ ZipIdle /\ FadeIdle /\ FmIdle /\ WfIdle

SpecTranscribe == InitTranscribe /\ [][SliceNext]_vars

InitNames == NamesInit /\ VlqIdle /\ MidiIdle /\ KeyIdle /\ ZipIdle /\ FadeIdle /\ FmIdle /\ WfIdle

SpecNames == InitNames /\ [][SliceNext]_vars

InitZip == ZipInit /\ VlqIdle /\ MidiIdle /\ KeyIdle /\ FadeIdle /\ FmIdle /\ WfIdle

ZipNext ==
    \/ ZipNoStems \/ ZipStart \/ ZipReportProgress \/ ZipSliceStem
    \/ ZipSliceStemRaises \/ ZipBegin \/ ZipWriteFile \/ ZipWriteRaises
    \/ ZipClose \/ CleanupFile \/ CleanupRaises \/ ZipReturn

SpecZip == InitZip /\ [][ZipNext]_vars

\* a call of either entry point
InitEngine == InitSlice \/ InitZip

EngineNext == SliceNext \/ ZipNext

SpecEngine == InitEngine /\ [][EngineNext]_vars

InitFade == FadeInit /\ VlqIdle /\ MidiIdle /\ KeyIdle /\ SliceIdle /\ ZipIdle /\ FmIdle /\ WfIdle

SpecFade == InitFade /\ [][OneShotFade]_vars

InitFm == FmInit /\ VlqIdle /\ MidiIdle /\ KeyIdle /\ SliceIdle /\ ZipIdle /\ FadeIdle /\ WfIdle

FmNext == FilterBypass \/ FilterRaises \/ FilterModulate

SpecFm == InitFm /\ [][FmNext]_vars

InitWf == WfInit /\ VlqIdle /\ MidiIdle /\ KeyIdle /\ SliceIdle /\ ZipIdle /\ FadeIdle /\ FmIdle

WfNext ==
    \/ Execute \/ ModuleSkipped \/ ModuleSucceeds \/ ModuleFailsAndAborts
    \/ ModuleFailsAndContinues \/ ExecuteCompletes

SpecWf == InitWf /\ [][WfNext]_vars

----------------------------------------------------------------------------
(* Properties *)

BarLoopsEmitted ==
    Cardinality({i \in 1..Len(output_files) : output_files[i].ext = "wav"})

(* C1: in bar-loop mode the number of loop fragments slice_stem_real emits  *)
(* is min(16, floor(len / loop_duration_samples)), loop_duration_samples    *)
(* being round(60/bpm * beats_per_bar * bars * sample_rate); a 10 s buffer  *)
(* at 44.1 kHz, 120 BPM, 4/4 and 4-bar loops gives exactly 1 fragment.      *)
C1_BarLoopCount ==
    (slice_pc = "returned" /\ stem_audio.len > 0 /\ IsBarLoops(loop_choice)) =>
        LET bars == ParseInt(FirstWord(loop_choice))
            loop_duration_samples ==
                LoopDurationSamplesRounded(manual_bpm10, BeatsPerBar(time_signature),
                                           bars, stem_audio.sr)
        IN  /\ loop_duration_samples > 0
            /\ BarLoopsEmitted = Min2(MaxLoops, stem_audio.len \div loop_duration_samples)
            /\ (/\ stem_audio.len = 441000 /\ stem_audio.sr = 44100
                /\ manual_bpm10 = 1200 /\ time_signature = "4/4" /\ bars = 4)
                   => BarLoopsEmitted = 1

MaxVlq == 128 * 128 * 128 * 128 - 1    \* 0x0FFFFFFF

\* C2: for every tick count n in 0..0x0FFFFFFF, encode_delta_time(n) is the
\* standard variable-length quantity of n (7-bit groups, most significant
\* first, continuation bit on all but the last byte) and decodes to n again.
C2_StandardVlq ==
    (vlq_pc = "returned" /\ ticks \in 0..MaxVlq)
        => (vlq_out = StdVlq(ticks) /\ VlqDecode(vlq_out) = ticks)

\* C3: the track chunk of a written file is a well-formed event stream: the
\* MTrk length field counts the track bytes, every meta event's declared
\* length is the number of data bytes before the next event, and the events
\* are tempo (3), time signature (4), track name (the name text), the notes,
\* end of track (0).
C3_TrackWellFormed == midi_pc = "written" => TrackWellFormed(midi_file)

\* the notes of the sorted list that are written (pitch 0 is skipped)
WrittenNotes == SelectSeq(notes_list, LAMBDA n : n.note # 0)

RoundTicks(ms) == RoundHalfEven(ms * bpm10, 6250)

\* C4: for each written note the Note-On delta handed to the encoder is
\* round(start/seconds_per_tick) minus the absolute tick reached after the
\* previous note's Note-Off (0 before the first note), the Note-Off delta is
\* round(duration/seconds_per_tick) promoted from 0 to 1; one note (60, 0 s,
\* 0.5 s) at 120 BPM is written as delta 0 Note-On, delta 96 Note-Off.
C4_NoteDeltas ==
    midi_pc = "written" =>
        LET w == WrittenNotes IN
        /\ Len(midi_log) = Len(w)
        /\ \A k \in 1..Len(w) :
              /\ midi_log[k].note = w[k]
              /\ midi_log[k].off =
                    (IF RoundTicks(w[k].dur) = 0 THEN 1 ELSE RoundTicks(w[k].dur))
              /\ midi_log[k].on = RoundTicks(w[k].start)
                    - (IF k = 1 THEN 0
                       ELSE RoundTicks(w[k - 1].start) + midi_log[k - 1].off)
        /\ (notes_list = <<[note |-> 60, start |-> 0, dur |-> 500]>> /\ bpm10 = 1200)
              => /\ midi_log = <<[note |-> notes_list[1], on |-> 0, off |-> 96]>>
                 /\ SubSeq(midi_file, 55, 62) = <<0, 144, 60, 100, 96, 128, 60, 0>>

\* two notes written, the second after a gap, one Note-Off promoted to 1 tick
C4_Witness ==
    /\ midi_pc = "written"
    /\ Len(midi_log) = 2
    /\ midi_log[2].on > 0
    /\ \E k \in 1..2 : RoundTicks(midi_log[k].note.dur) = 0 /\ midi_log[k].off = 1

\* C5: for every tempo bpm > 0 and every non-empty note list write_midi_file
\* completes and the tempo payload is the 3-byte big-endian value of
\* floor(60,000,000 / bpm).
C5_TempoForEveryBpm ==
    (midi_pc # "call" /\ notes_list # <<>> /\ bpm10 > 0)
        => /\ midi_pc = "written"
           /\ SubSeq(midi_file, 23, 26) = <<0, 255, 81, 3>>
           /\ FromBytesBig(SubSeq(midi_file, 27, 29)) = 600000000 \div bpm10

\* C6: every key label detect_key returns, other than "Unknown Key", has a
\* Camelot code in KEY_TO_CAMELOT, so the recommendation for a detected key is
\* never the 'N/A' sentinel.
C6_DetectedKeyHasCode ==
    (impl = "app" /\ key_pc = "recommended" /\ key_str # UnknownKey)
        => (DictHas(KEY_TO_CAMELOT, key_str) /\ recs.ret = "ok")

CamelotModes == {"A", "B"}
CamelotCodes == {Append(FormatInt(n), mode) : n \in 1..12, mode \in CamelotModes}
CodeFallback == <<"C", "o", "d", "e", " ">>

\* the name shown for a code: a non-empty text of the reverse map, not 'Code X'
ResolvedEntry(m, entry, code) ==
    \E i \in 1..Len(CamelotToKeyOf(m)) :
        /\ CamelotToKeyOf(m)[i][1] = code
        /\ CamelotToKeyOf(m)[i][2] # <<>>
        /\ SubSeq(CamelotToKeyOf(m)[i][2], 1, 5) # CodeFallback
        /\ entry = CamelotToKeyOf(m)[i][2] \o <<" ", "(">> \o code \o <<")">>

\* C7: for a key label with Camelot code <n><mode> the recommendation has
\* exactly three entries, in the order n/opposite mode, n+1/same mode (12
\* wraps to 1), n-1/same mode (1 wraps to 12); each code is one of the 24
\* codes and resolves to a non-empty display name, never to 'Code X'.
C7_ThreeRelatedCodes ==
    (key_pc = "recommended given" /\ DictHas(KeyToCamelotOf(impl), key_str))
        => \E n \in 1..12, mode \in CamelotModes :
              /\ DictGet(KeyToCamelotOf(impl), key_str, NA) = Append(FormatInt(n), mode)
              /\ recs.ret = "ok"
              /\ recs.codes =
                    << Append(FormatInt(n), IF mode = "A" THEN "B" ELSE "A"),
                       Append(FormatInt(IF n = 12 THEN 1 ELSE n + 1), mode),
                       Append(FormatInt(IF n = 1 THEN 12 ELSE n - 1), mode) >>
              /\ Len(recs.keys) = 3
              /\ \A i \in 1..3 :
                    /\ recs.codes[i] \in CamelotCodes
                    /\ ResolvedEntry(impl, recs.keys[i], recs.codes[i])

\* E Maj (12B): the relative key 12A, then 1B by the wrap, then 11B
C7_Witness ==
    /\ key_pc = "recommended given"
    /\ key_str = Label(<<"E">>, Maj)
    /\ recs.ret = "ok"
    /\ recs.codes = << <<"1", "2", "A">>, <<"1", "B">>, <<"1", "1", "B">> >>

MaxOf(q) == CHOOSE x \in {q[i] : i \in 1..Len(q)} : \A j \in 1..Len(q) : q[j] <= x

\* the highest major correlation equals the highest minor correlation
CorrelationTie(chroma) ==
    /\ ChromaTotal(chroma) > 0
    /\ MaxOf(Correlations(chroma, major_template)) * SumSeq(minor_template)
         = MaxOf(Correlations(chroma, minor_template)) * SumSeq(major_template)

\* C8 as stated: when the highest major correlation equals the highest minor
\* correlation, detect_key returns the major key (root of the best major
\* rotation + " Maj").
C8_TieGivesMajor ==
    (key_pc = "detected" /\ CorrelationTie(chroma_sums))
        => key_str = pitch_classes[ArgMax(Correlations(chroma_sums, major_template)) + 1]
                        \o <<" ">> \o Maj

\* C8 as amended: on such a tie detect_key returns the minor key (root of the
\* best minor rotation + " Min"); major is returned only when strictly higher.
C8_TieGivesMinor ==
    (key_pc = "detected" /\ CorrelationTie(chroma_sums))
        => key_str = pitch_classes[ArgMax(Correlations(chroma_sums, minor_template)) + 1]
                        \o <<" ">> \o Min

C8_Witness == key_pc = "detected" /\ CorrelationTie(chroma_sums)

RECURSIVE FilesOfStems(_, _)
FilesOfStems(valid, k) ==
    IF k = 0 THEN <<>>
    ELSE FilesOfStems(valid, k - 1)
             \o (IF valid[k] \in failed_stems THEN <<>> ELSE StemFiles(valid[k]))

StemsDone ==
    IF zip_pc = "call" THEN 0
    ELSE IF zip_pc \in {"report", "slice"} THEN zip_i - 1
    ELSE Len(ValidStems(stems_in))

(* C9: a stem whose processing raised contributes an empty file list; every *)
(* other stem that is not None is processed, in order, and its files are in *)
(* the archive; a run is never ended by the failure of a stem.              *)
C9_StemFailureIsolated ==
    LET valid == ValidStems(stems_in)
    IN  (zip_pc # "off" /\ valid # <<>>) =>
            /\ all_sliced_files = FilesOfStems(valid, StemsDone)
            /\ failed_stems \subseteq {valid[i] : i \in 1..StemsDone}
            /\ zip_pc = "raised" => <<9, 10>> \in Range(progress_log)
            /\ zip_pc \in {"cleanup", "returned"} =>
                   archive = FilesOfStems(valid, Len(valid))

C9_Witness ==
    LET valid == ValidStems(stems_in)
    IN  /\ zip_pc = "returned"
        /\ \E i, j \in 1..Len(valid) :
               /\ i < j
               /\ valid[i] \in failed_stems /\ StemFiles(valid[i]) # <<>>
               /\ valid[j] \notin failed_stems /\ StemFiles(valid[j]) # <<>>
               /\ archive = StemFiles(valid[j])
               /\ Range(StemFiles(valid[i])) \cap disk # {}

(* C10: a fragment file is deleted only after the archive holding every     *)
(* file of the run has been written and closed; a run that raised before    *)
(* the archive was closed has deleted nothing.                              *)
C10_CleanupAfterArchive ==
    /\ deleted # {} => (zip_closed /\ archive = all_sliced_files)
    /\ deleted \subseteq Range(archive)
    /\ ~zip_closed => Range(all_sliced_files) \subseteq disk
    /\ (zip_pc = "raised" /\ ~zip_closed) => deleted = {}

C10_Witness ==
    /\ zip_pc = "returned"
    /\ Len(ValidStems(stems_in)) > 1
    /\ deleted # {}
    /\ deleted = Range(all_sliced_files)

(* C11: the fraction k/n is reported only after the k-th of the n valid     *)
(* stems has been processed: while the stems are being sliced, no reported  *)
(* fraction exceeds the share of the stems that are done.                   *)
C11_ProgressAfterStem ==
    LET n == Len(ValidStems(stems_in))
    IN  zip_pc \in {"report", "slice"} =>
            \A e \in Range(progress_log) : e[1] * n <= StemsDone * e[2]

WavFiles == SelectSeq(output_files, LAMBDA f : f.ext = "wav")

(* C12: in bar-loop mode the i-th fragment (from 0) covers the samples      *)
(* [i*L, (i+1)*L), L being loop_duration_samples: the fragments start at 0, *)
(* are contiguous, each is L samples long, none passes the end of the       *)
(* buffer, and there are at most 16.                                        *)
C12_BarLoopSpans ==
    (slice_pc = "returned" /\ stem_audio.len > 0 /\ IsBarLoops(loop_choice)) =>
        LET L == LoopDurationSamples(manual_bpm10, BeatsPerBar(time_signature),
                                     ParseInt(FirstWord(loop_choice)), stem_audio.sr)
        IN  /\ Len(WavFiles) <= 16
            /\ \A i \in 1..Len(WavFiles) :
                   /\ WavFiles[i].start = (i - 1) * L
                   /\ WavFiles[i].end = i * L
                   /\ WavFiles[i].end <= stem_audio.len

C12_Witness ==
    /\ slice_pc = "returned" /\ IsBarLoops(loop_choice)
    /\ Len(WavFiles) >= 2 /\ Len(WavFiles) < 16
    /\ WavFiles[Len(WavFiles)].end < stem_audio.len

\* the onset marks of the call, the end of the buffer being the last one
OnsetMarks == OnsetSamples(onset_frames, stem_audio)

(* C13: in one-shot mode at most 40 fragments are emitted per stem; every   *)
(* fragment is the span between two consecutive onset marks (the end of the *)
(* buffer being the last mark) and has at least 100 samples; the fragments  *)
(* are emitted in ascending order and do not overlap.                       *)
C13_OneShotSpans ==
    (slice_pc = "returned" /\ stem_audio.len > 0 /\ IsOneShots(loop_choice)) =>
        /\ Len(output_files) <= 40
        /\ \A k \in 1..Len(output_files) :
               LET f == output_files[k]
               IN  /\ f.ext = "wav"
                   /\ f.end - f.start >= 100
                   /\ \E i \in 1..(Len(OnsetMarks) - 1) :
                          f.start = OnsetMarks[i] /\ f.end = OnsetMarks[i + 1]
        /\ \A k \in 1..(Len(output_files) - 1) :
               output_files[k].end <= output_files[k + 1].start

C13_Witness ==
    /\ slice_pc = "returned" /\ IsOneShots(loop_choice)
    /\ Len(output_files) = 40
    /\ Len(OnsetMarks) - 1 > 40

\* a call that met a span of under 100 samples and dropped it
C13_SkipReached ==
    /\ slice_pc = "returned" /\ IsOneShots(loop_choice)
    /\ output_files # <<>>
    /\ Len(OnsetMarks) - 1 <= 40
    /\ Len(output_files) < Len(OnsetMarks) - 1

\* the samples the 5 ms fade may touch: the last min(int(0.005 * sr), N // 2)
FadeTail == Min2(ShortFadeSamples(fade_sr), Len(slice_data) \div 2)

(* C14: the fade applied to a one-shot after the envelope is a fade-out     *)
(* only: it changes no sample before the last min(int(0.005 * sample_rate), *)
(* N // 2) samples of the fragment.                                         *)
C14_FadeOutOnly ==
    fade_pc = "returned" =>
        /\ Len(faded) = Len(slice_data)
        /\ \A i \in 1..(Len(slice_data) - FadeTail) : SameValue(faded[i], slice_data[i])

\* the place of a stage in the fixed order
StageRank(stage) ==
    CASE stage = "pitch_shift"       -> 1
      [] stage = "filter_modulation" -> 2
      [] stage = "modulation"        -> 3
      [] stage = "normalization"     -> 4
      [] stage = "crossfade"         -> 5
      [] stage = "envelope"          -> 5
      [] stage = "fade"              -> 6

\* the stages that are switched on for a fragment of the mode
StagesOn ==
    (IF transpose_semitones # 0 THEN {"pitch_shift"} ELSE {})
        \cup (IF filter_type # "None" /\ filter_depth # 0 THEN {"filter_modulation"} ELSE {})
        \cup (IF pan_depth # 0 \/ level_depth # 0 THEN {"modulation"} ELSE {})
        \cup (IF target_dbfs10 < 0 THEN {"normalization"} ELSE {})
        \cup (IF IsBarLoops(loop_choice)
              THEN (IF crossfade_ms # 0 THEN {"crossfade"} ELSE {})
              ELSE {"envelope", "fade"})

(* C15: the stages that worked on an emitted fragment ran in the order      *)
(* pitch transpose, filter modulation, pan/level modulation, peak           *)
(* normalization, then crossfade (loop) or envelope and short fade          *)
(* (one-shot); they are exactly the stages that are switched on, a stage    *)
(* that is off being skipped without reordering the others.                 *)
C15_StageOrder ==
    slice_pc = "returned" =>
        \A k \in 1..Len(WavFiles) :
            LET stages == WavFiles[k].stages
            IN  /\ \A i \in 1..(Len(stages) - 1) :
                       StageRank(stages[i]) < StageRank(stages[i + 1])
                /\ Range(stages) = StagesOn

C15_Witness ==
    /\ slice_pc = "returned"
    /\ WavFiles # <<>>
    /\ IsBarLoops(loop_choice)
    /\ transpose_semitones # 0 /\ filter_type = "None" /\ pan_depth > 0
    /\ target_dbfs10 < 0 /\ crossfade_ms > 0
    /\ WavFiles[1].stages = <<"pitch_shift", "modulation", "normalization", "crossfade">>

MidFiles == SelectSeq(output_files, LAMBDA f : f.ext = "mid")

(* C16: slice_stem_real emits a MIDI file only in bar-loop mode and for one *)
(* of the stems vocals, bass, guitar, piano, other, never for the drums or  *)
(* in one-shot mode, and at most one per call; when no note is retained or  *)
(* MIDI generation fails there is none, and the WAV loops are still         *)
(* produced.                                                                *)
C16_MidiOnlyMelodicBarLoops ==
    (slice_pc = "returned" /\ stem_audio.len > 0) =>
        /\ Len(MidFiles) <= 1
        /\ MidFiles # <<>> =>
               /\ IsBarLoops(loop_choice)
               /\ stem_name \in {"vocals", "bass", "guitar", "piano", "other"}
               /\ ~main_pitch_line.raises
               /\ \E i \in 1..(Len(main_pitch_line.midi) - 1) :
                      /\ main_pitch_line.midi[i] # 0
                      /\ main_pitch_line.midi[i + 1] = main_pitch_line.midi[i]
        /\ (stem_name = "drums" \/ IsOneShots(loop_choice)) => MidFiles = <<>>
        /\ IsBarLoops(loop_choice) =>
               WavFiles = BarLoopFiles(stem_name, loop_choice, manual_bpm10,
                                       time_signature, stem_audio)

C16_Witness ==
    /\ slice_pc = "returned"
    /\ Len(MidFiles) = 1
    /\ Len(WavFiles) >= 1
    /\ output_files[1].ext = "mid"

\* a call whose pitch tracking raised: no MIDI file, the loops are written
C16_FailureReached ==
    /\ slice_pc = "returned"
    /\ IsBarLoops(loop_choice) /\ IsMelodic(stem_name)
    /\ main_pitch_line.raises
    /\ MidFiles = <<>> /\ WavFiles # <<>>

\* the fields of a file name between its underscores
NameFields(f) == Split(f.path, "_")

\* <NBar|OneShot> for the mode of the call
TypeTag ==
    IF IsBarLoops(loop_choice)
    THEN FormatInt(ParseInt(FirstWord(loop_choice))) \o <<"B", "a", "r">>
    ELSE <<"O", "n", "e", "S", "h", "o", "t">>

\* text is <intBPM>BPM.<ext>, intBPM being the BPM rounded to an integer
IsBpmField(text, ext) ==
    /\ Len(text) > 7
    /\ SubSeq(text, Len(text) - 6, Len(text)) = <<"B", "P", "M", ".">> \o ext
    /\ LET n == ParseInt(SubSeq(text, 1, Len(text) - 7))
       IN  /\ n >= 0
           /\ 10 * n - manual_bpm10 <= 5
           /\ manual_bpm10 - 10 * n <= 5

\* <stem>_<NBar|OneShot>_<###>_<KeyTagOrShift>_<intBPM>BPM.<ext>
NamedAsFragment(f, ext) ==
    LET q == NameFields(f)
    IN  /\ Len(q) = 5
        /\ q[1] = StemChars(stem_name)
        /\ q[2] = TypeTag
        /\ Len(q[3]) = 3 /\ ParseInt(q[3]) >= 1 /\ ParseInt(q[3]) = f.ordinal
        /\ q[4] # <<>>
        /\ IsBpmField(q[5], ext)

\* <stem>_MELODY_<KeyTagOrShift>_<intBPM>BPM.mid
NamedAsMelody(f) ==
    LET q == NameFields(f)
    IN  /\ Len(q) = 4
        /\ q[1] = StemChars(stem_name)
        /\ q[2] = <<"M", "E", "L", "O", "D", "Y">>
        /\ q[3] # <<>>
        /\ IsBpmField(q[4], <<"m", "i", "d">>)

(* C17: every file slice_stem_real emits is named                           *)
(* <stem>_<NBar|OneShot>_<###>_<KeyTagOrShift>_<intBPM>BPM, with .wav for a *)
(* fragment and .mid for the MIDI file, ### being the 1-based ordinal on 3  *)
(* digits and intBPM the BPM rounded to an integer.                         *)
C17_FileNames ==
    slice_pc = "returned" =>
        \A k \in 1..Len(output_files) :
            NamedAsFragment(output_files[k],
                            IF output_files[k].ext = "mid" THEN <<"m", "i", "d">>
                            ELSE <<"w", "a", "v">>)

(* C17, as the code has it: a fragment is named as C17 says, with .wav; the *)
(* MIDI file of a stem is named <stem>_MELODY_<KeyTagOrShift>_<intBPM>BPM.mid, *)
(* without a type tag and without an ordinal.                               *)
C17_FragmentAndMelodyNames ==
    slice_pc = "returned" =>
        \A k \in 1..Len(output_files) :
            IF output_files[k].ext = "mid"
            THEN NamedAsMelody(output_files[k])
            ELSE NamedAsFragment(output_files[k], <<"w", "a", "v">>)

C17_Witness ==
    /\ slice_pc = "returned"
    /\ manual_bpm10 = 1205
    /\ transpose_semitones < 0
    /\ Len(MidFiles) = 1 /\ Len(WavFiles) >= 1

\* the key field of a file name
KeyField(f) == IF f.ext = "mid" THEN NameFields(f)[3] ELSE NameFields(f)[4]

\* the 12-tone table, indices 0..11
ToneTable == [i \in 0..11 |-> pitch_classes[i + 1]]

(* C18: for a detected key of root r and mode m and a transpose t in        *)
(* [-12, 12], the key tag is the label without its space when t = 0, and    *)
(* table[(index(r) + t) mod 12] + m + "Shift" when t # 0, the index being   *)
(* in 0..11 for a negative t as well; for "Unknown Key" it is "UnknownKey"  *)
(* whatever t is.                                                           *)
C18_KeyTag ==
    slice_pc = "returned" =>
        \A k \in 1..Len(output_files) :
            LET tag == KeyField(output_files[k])
                t   == transpose_semitones
            IN  IF detected_key = UnknownKey
                THEN tag = <<"U", "n", "k", "n", "o", "w", "n", "K", "e", "y">>
                ELSE \E r \in 0..11, mode \in {Maj, Min} :
                        /\ detected_key = ToneTable[r] \o <<" ">> \o mode
                        /\ IF t = 0 THEN tag = ToneTable[r] \o mode
                           ELSE \E n \in 0..11 :
                                   /\ \E q \in -2..2 : r + t = 12 * q + n
                                   /\ tag = ToneTable[n] \o mode \o <<"S", "h", "i", "f", "t">>

C18_Witness ==
    /\ slice_pc = "returned"
    /\ output_files # <<>>
    /\ detected_key = Label(<<"C">>, Min)
    /\ transpose_semitones = -1
    /\ KeyField(output_files[1]) = <<"B", "M", "i", "n", "S", "h", "i", "f", "t">>

\* a note list without its notes of pitch 0
WithoutPitchZero(notes) == SelectSeq(notes, LAMBDA n : n.note # 0)

\* what a call of write_midi_file leaves at output_path: <<>> is no file
FileWrittenFor(notes, b10) ==
    IF notes = <<>> THEN <<>> ELSE MidiData(SortByStart(notes), b10)

(* C19: a note of pitch 0 contributes no Note-On or Note-Off bytes and      *)
(* leaves the running tick unchanged, so the file written for a note list   *)
(* is the file written for the list without its notes of pitch 0.           *)
C19_PitchZeroSkipped ==
    midi_pc \in {"written", "returned"} =>
        midi_file = FileWrittenFor(WithoutPitchZero(notes_list), bpm10)

(* C19, as the code has it: the notes written are the notes of non-zero     *)
(* pitch, and the file is the file written for the list without its notes   *)
(* of pitch 0 whenever one note is left; a list of notes of pitch 0 only    *)
(* gives a file with no note event, the empty list gives no file.           *)
C19_PitchZeroSkippedWhenNoteLeft ==
    /\ midi_pc = "written" =>
           /\ [i \in 1..Len(midi_log) |-> midi_log[i].note] = WithoutPitchZero(notes_list)
           /\ WithoutPitchZero(notes_list) # <<>> =>
                  midi_file = FileWrittenFor(WithoutPitchZero(notes_list), bpm10)
           /\ WithoutPitchZero(notes_list) = <<>> =>
                  /\ midi_file = MidiData(<<>>, bpm10)
                  /\ midi_file # FileWrittenFor(<<>>, bpm10)
    /\ midi_pc = "returned" => midi_file = <<>>

C19_Witness ==
    /\ midi_pc = "written"
    /\ Len(notes_list) = 2
    /\ notes_list[1].note = 0 /\ notes_list[1].start = 500
    /\ notes_list[2].note = 60 /\ notes_list[2].start = 1000

(* C20: slice_stem_real given a missing or an empty buffer returns an empty *)
(* list before any temporary directory or output file is made, and          *)
(* slice_all_and_zip given no stem that is not None raises before any       *)
(* directory, fragment file or archive is made.                             *)
C20_ValidationFailsFast ==
    /\ (slice_pc = "returned" /\ (stem_audio.none \/ stem_audio.len = 0)) =>
           /\ output_files = <<>>
           /\ temp_dirs = 0
           /\ disk = {}
    /\ (zip_pc = "raised" /\ ValidStems(stems_in) = <<>>) =>
           /\ temp_dirs = 0
           /\ disk = {}
           /\ all_sliced_files = <<>>
           /\ progress_log = <<>>
           /\ archive = <<>> /\ ~zip_closed

C20_Witness ==
    /\ slice_pc = "returned"
    /\ ~stem_audio.none /\ stem_audio.len = 0
    /\ output_files = <<>>

\* a call with no buffer at all, and a run with no stem
C20_NoneReached == slice_pc = "returned" /\ stem_audio = None

C20_NoStemsReached == zip_pc = "raised" /\ stems_in = {}

\* the whole channel filtered in one pass with the coefficients of one cutoff
SinglePass(x, cutoff, btype) ==
    Lfilter(Butter(cutoff, btype), x, LfilterZi(Butter(FailsafeCutoff, btype))).y

ConstantCutoff == AvgCutoff(fm_freq, fm_depth, 0, fm_sr)

(* C21: with a Low-pass or High-pass filter and depth = 0, the output of     *)
(* apply_filter_modulation is, channel by channel, the buffer filtered in   *)
(* one pass with the coefficients of the constant cutoff.                   *)
C21_FilterContinuity ==
    (/\ fm_pc = "returned"
     /\ fm_type \in {LowPass, HighPass}
     /\ fm_depth = 0
     /\ ~ButterRaises(ConstantCutoff, fm_sr)) =>
        /\ Len(y_out) = 2
        /\ \A ch \in 1..2 :
              y_out[ch] = SinglePass(Stereo(fm_y)[ch], ConstantCutoff, fm_type)

\* what does hold: when the frames were filtered and the LFO is level over
\* the buffer, the frames put together are the single pass
FramewiseIsSinglePass ==
    (/\ fm_pc = "returned"
     /\ coef_log # <<>>
     /\ \A k \in 1..Len(lfo_value) : lfo_value[k] = lfo_value[1]
     /\ ~ButterRaises(AvgCutoff(fm_freq, fm_depth, lfo_value[1], fm_sr), fm_sr)) =>
        \A ch \in 1..2 :
           y_out[ch] = SinglePass(Stereo(fm_y)[ch],
                          AvgCutoff(fm_freq, fm_depth, lfo_value[1], fm_sr), fm_type)

FramewiseReached ==
    /\ fm_pc = "returned" /\ Len(lfo_value) = 2 /\ lfo_value[1] = lfo_value[2]
    /\ coef_log # <<>> /\ fm_sr = 8000

\* the log entry of the frame before e in the same channel
PreviousFrame(e) ==
    CHOOSE p \in Range(coef_log) : p.channel = e.channel /\ p.frame = e.frame - 1

(* C23: in every channel, a frame whose coefficient computation fails is    *)
(* filtered with the 20 Hz fail-safe coefficients when it is the channel's  *)
(* first frame and with the coefficients of the channel's previous frame    *)
(* otherwise, and no frame is filtered with coefficients or a filter state  *)
(* computed for another channel.                                            *)
C23_FailureFallback ==
    fm_pc = "returned" =>
        \A e \in Range(coef_log) :
           /\ (e.failed /\ e.frame = 0) =>
                 e.used.c = Butter(FailsafeCutoff, fm_type)
           /\ (e.failed /\ e.frame > 0) => e.used = PreviousFrame(e).used
           /\ e.used.channel = e.channel
           /\ e.frame = 0 => e.zi = LfilterZi(Butter(FailsafeCutoff, fm_type))

\* the two fallbacks taken by themselves do hold in the first channel
C23_FirstChannelFallback ==
    fm_pc = "returned" =>
        \A e \in Range(coef_log) :
           e.channel = 0 =>
              /\ (e.failed /\ e.frame = 0) => e.used.failsafe
              /\ (e.failed /\ e.frame > 0) => e.used = PreviousFrame(e).used
              /\ e.used.channel = 0

C23_FailureReached ==
    /\ fm_pc = "returned"
    /\ \E e \in Range(coef_log) : e.failed /\ e.frame > 0 /\ e.channel = 1

\* the rotation and the scale of the major profile chroma_sums is, if any
MajorProfiles ==
    {rs \in PitchClass \X (1..MaxScale) :
        chroma_sums = ProfileOf(major_template, rs[1], rs[2])}

(* C22: when the chroma histogram is the major reference profile turned by  *)
(* r, detect_key returns pitch_classes[r] + " Maj", the correlation with    *)
(* the major template at rotation r being strictly above that with every    *)
(* other major rotation and with every minor rotation.                      *)
C22_MajorProfileDetected ==
    key_pc = "detected" =>
        \A rs \in MajorProfiles :
           LET r     == rs[1]
               major == Correlations(chroma_sums, major_template)
               minor == Correlations(chroma_sums, minor_template)
           IN  /\ key_str = pitch_classes[r + 1] \o <<" ">> \o Maj
               /\ \A j \in 1..12 : j # r + 1 => major[j] < major[r + 1]
               /\ \A j \in 1..12 : MajorWins(major[r + 1], minor[j])

\* the profile of the spec's example (r = 0) and one that wraps round
C22_Witness ==
    /\ key_pc = "detected"
    /\ <<0, 1>> \in MajorProfiles
    /\ key_str = <<"C", " ">> \o Maj

C22_RotatedReached ==
    /\ key_pc = "detected"
    /\ <<10, 2>> \in MajorProfiles
    /\ key_str = Sharp("A") \o <<" ">> \o Maj

\* frames s..e of the track (from 1) are a run of one pitch that cannot be
\* made longer at either end
IsMaximalRun(line, s, e) ==
    /\ s <= e
    /\ \A i \in s..e : line[i] = line[s]
    /\ s = 1 \/ line[s - 1] # line[s]
    /\ e = Len(line) \/ line[e + 1] # line[s]

RetainedRuns(line) ==
    {[note |-> line[s], start_frame |-> s - 1, frames |-> e - s + 1] :
        <<s, e>> \in {se \in (1..Len(line)) \X (1..Len(line)) :
                         /\ IsMaximalRun(line, se[1], se[2])
                         /\ line[se[1]] # 0
                         /\ se[2] - se[1] + 1 >= 2}}

\* the notes of the MIDI file of the call, none when no file was written
NotesOut ==
    IF MidFiles = <<>> THEN <<>> ELSE MidFiles[1].notes

TranscriptionDone ==
    /\ slice_pc = "returned"
    /\ stem_audio # None /\ stem_audio.len > 0
    /\ IsMelodic(stem_name) /\ IsBarLoops(loop_choice)
    /\ ~main_pitch_line.raises

RECURSIVE DueModules(_)
DueModules(k) ==
    IF k = 0 THEN <<>>
    ELSE DueModules(k - 1)
            \o (IF ShouldExecuteModule(modules[k]) THEN <<k - 1>> ELSE <<>>)

Failed(entry) == entry.outcome \in {"failure", "raised"}

(* C25: execute calls process() on the modules in the order of their        *)
(* registration; the failure or the exception of a required module ends the *)
(* run at once with success = False, no later module being processed; after *)
(* that of an optional module the run goes on with the next module and can  *)
(* end with success = True, the module being listed in steps_failed.        *)
C25_OrderAndFailures ==
    wf_pc \in {"loop", "returned"} =>
        /\ [k \in 1..Len(process_log) |-> process_log[k].index] = DueModules(wf_i)
              \o (IF wf_result.returned /\ ~wf_result.success THEN <<wf_i>> ELSE <<>>)
        /\ \A k \in 1..Len(process_log) :
              (Failed(process_log[k]) /\ modules[process_log[k].index + 1].required)
                 <=> (k = Len(process_log) /\ wf_result.returned /\ ~wf_result.success)
        /\ (wf_result.returned /\ wf_result.success) => wf_i = Len(modules)
        /\ steps_failed =
              [k \in 1..Len(SelectSeq(process_log, Failed)) |->
                  modules[SelectSeq(process_log, Failed)[k].index + 1].name]
        /\ wf_result.returned =>
              /\ wf_result.steps_failed = steps_failed
              /\ wf_result.steps_completed = steps_completed
              /\ wf_result.success =>
                    \A k \in 1..Len(process_log) :
                       Failed(process_log[k]) =>
                          ~modules[process_log[k].index + 1].required

\* a successful run in which an optional module failed and a later module
\* was processed
C25_Witness ==
    /\ wf_result.returned /\ wf_result.success
    /\ wf_result.steps_failed = <<"Metadata Tagger">>
    /\ Len(process_log) = 3
    /\ process_log[2].outcome = "raised"
    /\ process_log[3].outcome = "success"

\* a run that a required module ended before the last module
C25_AbortReached ==
    /\ wf_result.returned /\ ~wf_result.success
    /\ Len(modules) = 3 /\ Len(process_log) = 1

(* C29: once execute has returned a successful result for a module list     *)
(* that is not empty, get_status() reports is_complete = True, the step     *)
(* "Complete" and a progress of 100 %, as the last status handed to the     *)
(* callback does; while a module is still to run it reports is_complete =   *)
(* False.                                                                   *)
C29_StatusAfterSuccess ==
    /\ (wf_result.returned /\ wf_result.success /\ Len(modules) > 0) =>
          /\ GetStatus.is_complete
          /\ GetStatus.current_step = "Complete"
          /\ SameValue(GetStatus.progress_percent, <<100, 1>>)
          /\ status_callback =>
                /\ Last(status_log).is_complete = GetStatus.is_complete
                /\ Last(status_log).current_step = GetStatus.current_step
                /\ Last(status_log).progress_percent = GetStatus.progress_percent
    /\ (wf_pc = "loop" /\ wf_i < Len(modules)) => ~GetStatus.is_complete

\* what the two reports do have in common after a successful run
C29_SameProgressReported ==
    (wf_result.returned /\ wf_result.success /\ Len(modules) > 0) =>
        /\ ~GetStatus.is_complete
        /\ GetStatus.current_step = modules[Len(modules)].name
        /\ GetStatus.progress_percent = <<(Len(modules) - 1) * 100, Len(modules)>>
        /\ status_callback =>
              /\ Last(status_log).is_complete
              /\ Last(status_log).current_step = "Complete"
              /\ Last(status_log).progress_percent = GetStatus.progress_percent

\* every note starts at or after the end of the note before it
StartsAfterPrevious(notes) ==
    \A k \in 2..Len(notes) : notes[k].start >= notes[k - 1].start + notes[k - 1].dur

(* C26: for a note list in which every note starts at or after the end of   *)
(* the previous note, every Note-On delta-time write_midi_file hands to     *)
(* encode_delta_time is >= 0.                                               *)
C26_NoteOnDeltaNotNegative ==
    (midi_pc = "written" /\ StartsAfterPrevious(notes_list)) =>
        \A k \in 1..Len(midi_log) : midi_log[k].on >= 0

\* the premise holds of every list of the transcription
C26_PremiseHolds ==
    midi_pc = "written" => StartsAfterPrevious(notes_list)

\* what does hold: the delta is never below -1, the two roundings of a note
\* adding at most one tick to its end
C26_DeltaAtLeastMinusOne ==
    (midi_pc = "written" /\ StartsAfterPrevious(notes_list)) =>
        \A k \in 1..Len(midi_log) : midi_log[k].on >= -1

(* C27: the ordinals in the names of the WAV fragments emitted for one stem *)
(* are exactly 1..k, k being the number of fragments emitted, in bar-loop   *)
(* mode and in one-shot mode alike.                                         *)
C27_OrdinalsContiguous ==
    slice_pc = "returned" =>
        \A k \in 1..Len(WavFiles) :
           /\ WavFiles[k].ordinal = k
           /\ NameFields(WavFiles[k])[3] = Pad3(k)

\* what does hold: the ordinals go up, and in bar-loop mode they are 1..k
C27_OrdinalsAscending ==
    slice_pc = "returned" =>
        /\ \A k \in 1..(Len(WavFiles) - 1) :
              WavFiles[k].ordinal < WavFiles[k + 1].ordinal
        /\ \A k \in 1..Len(WavFiles) : WavFiles[k].ordinal >= k
        /\ IsBarLoops(loop_choice) =>
              \A k \in 1..Len(WavFiles) : WavFiles[k].ordinal = k

\* fractions <<numerator, denominator>> with positive denominators
AtMost(p, q) == p[1] * q[2] <= q[1] * p[2]

(* C28: the progress fractions slice_all_and_zip reports in one run start   *)
(* at 0, never go down from one report to the next, and 1.0 is reported     *)
(* only as the last report of a successful run.                             *)
C28_ProgressNonDecreasing ==
    /\ progress_log # <<>> => progress_log[1][1] = 0
    /\ \A k \in 1..(Len(progress_log) - 1) :
          AtMost(progress_log[k], progress_log[k + 1])
    /\ \A k \in 1..Len(progress_log) :
          SameValue(progress_log[k], <<1, 1>>) =>
             (k = Len(progress_log) /\ zip_closed)

\* what does hold: 0 first, the stems' fractions going up to 1, then 0.9,
\* then 1.0 once the archive is closed
C28_ProgressShape ==
    LET n == Len(ValidStems(stems_in))
    IN  \A k \in 1..Len(progress_log) :
           progress_log[k] =
              (IF k = 1 THEN <<0, 1>>
               ELSE IF k <= n + 1 THEN <<k - 1, n>>
               ELSE IF k = n + 2 THEN <<9, 10>>
               ELSE <<1, 1>>)

\* the pitch class of a root as it is spelled: the letter, raised by a sharp,
\* lowered by a flat
LetterClass(letter) ==
    CASE letter = "C" -> 0 [] letter = "D" -> 2 [] letter = "E" -> 4
      [] letter = "F" -> 5 [] letter = "G" -> 7 [] letter = "A" -> 9
      [] letter = "B" -> 11

RootClass(root) ==
    (LetterClass(root[1])
        + (IF Len(root) = 1 THEN 0 ELSE IF root[2] = "#" THEN 1 ELSE -1)) % 12

\* two labels spell one key: the same pitch class and the same mode
SameKey(a, b) ==
    /\ RootClass(Split(a, " ")[1]) = RootClass(Split(b, " ")[1])
    /\ Split(a, " ")[2] = Split(b, " ")[2]

\* the spellings a text of CAMELOT_TO_KEY shows, the " / " between them taken out
RECURSIVE Strip(_)
Strip(text) ==
    IF text # <<>> /\ Head(text) = " " THEN Strip(Tail(text))
    ELSE IF text # <<>> /\ Last(text) = " "
    THEN Strip(SubSeq(text, 1, Len(text) - 1))
    ELSE text

Spellings(text) == {Strip(part) : part \in Range(Split(text, "/"))}

LabelsOf(code) ==
    {KEY_TO_CAMELOT[i][1] : i \in {j \in 1..Len(KEY_TO_CAMELOT) : KEY_TO_CAMELOT[j][2] = code}}

(* C30: the labels KEY_TO_CAMELOT maps to the code of a label are spellings *)
(* of that label's key (same pitch class, same mode), and every spelling    *)
(* CAMELOT_TO_KEY shows for the code is a label KEY_TO_CAMELOT maps to it.  *)
C30_SameCodeSameKey ==
    (key_pc = "given" /\ DictHas(KEY_TO_CAMELOT, key_str)) =>
        LET code == DictGet(KEY_TO_CAMELOT, key_str, NA)
        IN  /\ \A label \in LabelsOf(code) : SameKey(key_str, label)
            /\ Spellings(DictGet(CAMELOT_TO_KEY, code, NA)) \subseteq LabelsOf(code)

\* what does hold: the second half, and the first half for every label but
\* "F Maj" and "Cb Maj"
C30_SpellingsAreLabels ==
    (key_pc = "given" /\ DictHas(KEY_TO_CAMELOT, key_str)) =>
        LET code == DictGet(KEY_TO_CAMELOT, key_str, NA)
        IN  /\ Spellings(DictGet(CAMELOT_TO_KEY, code, NA)) = LabelsOf(code)
            /\ code # Code(<<"7">>, "B") =>
                  \A label \in LabelsOf(code) : SameKey(key_str, label)

====
